---- MODULE Spec2Model ----
(***************************************************************************)
(* Bookmark Bridge: the sync state machine of src/src/main.ts              *)
(* (BookmarkBridgePlugin, BookmarkProcessor) and                           *)
(* src/src/services/twitter-service.ts (TwitterService).                   *)
(*                                                                         *)
(* Time is Date.now() in milliseconds.  Every `await` of the source is a   *)
(* point where another task of the event loop may run, so a handler is     *)
(* split into one action per stretch of code between two awaits.           *)
(***************************************************************************)
EXTENDS Integers, Sequences, FiniteSets, TLC

\* ---------------------------------------------------------------- bounds
\* Date.now() when the plugin is first loaded.
StartTime == 1000000
\* The clock stops here: one rate-limit window after the start, and the time a retry
\* armed after a token refresh takes to fire.
MaxTime == 1931000
\* The clock advances by at most this much in one step.
TickStep == 300000
\* Number of saveData calls that may reject in one run.
MaxSaveFailures == 2
\* Number of syncBookmarks invocations that may be suspended at an await at once.
NumProcs == 2
\* settings.lastSyncPage is an unbounded counter: pages are fetched while it is below this.
MaxPage == 2
\* Number of app restarts in one run.
MaxReloads == 1
\* Length of a page and number of tweet ids when a function is exercised on its own.
MaxLen == 2
MaxIds == 2
\* The lastSyncTimestamp that page filtering is exercised with.
CutoffTime == 1500000
\* Number of processBookmarks calls in a row.
MaxPasses == 2
\* How long after the end of the rate window the gate is still asked (ms).
GateMargin == 60000
\* Number of authorization sessions initiateTwitterAuth may start in one run.
MaxSessions == 2
\* Number of times the Automatic Syncing toggle is flipped in one run.
MaxToggles == 2
MaxAskTicks == 2
PageSize == 1
\* The retry-after header of a 429 answer to a token refresh (seconds).
RetryAfterSecs == 60

\* ------------------------------------------------------ program constants
apiRateLimitWindow == 15 * 60 * 1000
RATE_LIMIT_WINDOW == 15 * 60 * 1000
EmptyCooldown == 60 * 1000
SuccessCooldown == 15 * 60 * 1000
RefreshCooldown == 30 * 1000
ErrorCooldown == 5 * 60 * 1000
RoutineCooldown == 30 * 1000
CheckIntervalNormal == 60 * 60 * 1000
CheckIntervalBypass == 1 * 60 * 1000
EmptyCheckDelay == 1000
SuccessCheckDelay == 2000
RequestTimeout == 10000
RetryExtraDelay == 1000

Max(a, b) == IF a >= b THEN a ELSE b
Min(a, b) == IF a <= b THEN a ELSE b
\* Math.ceil(ms / 1000 / 60) for ms >= 0
CeilMinutes(ms) == (ms + 59999) \div 60000

Procs == 1..NumProcs

\* ------------------------------------------------------------- provider
\* Opaque continuation tokens; "" is the absent meta.next_token.
Tokens == {"t1", "t2"}
NoToken == ""
\* Raw tweets of a bookmarks page: id and created_at (ms).
Tweet(i, t) == [id |-> i, createdAt |-> t]
OldTweet == Tweet(1, 400000)
NewTweet == Tweet(2, 2000000)
\* data.data of the pages the provider may answer with.
ProviderPages == {<<>>, <<OldTweet>>, <<OldTweet, NewTweet>>}
\* Outcomes of a request to the provider.
ApiOutcomes == {"ok", "429", "401", "error"}

VARIABLES
  now,                  \* Date.now()
  settings,             \* BookmarkBridgePlugin.settings (shared with TwitterService)
  disk,                 \* data.json: what saveData last wrote
  plugin,               \* BookmarkBridgePlugin fields: isSyncCooldown, nextAllowedSyncTime, syncTimer, timeouts
  service,              \* TwitterService fields: lastApiCallTime, apiCallsInProgress
  inv,                  \* the suspended syncBookmarks invocations
  saveFailures,         \* saveData rejections so far
  reloads,              \* app restarts so far
  loaded,               \* onload has run since the app (re)started
  requests,             \* the times at which GET /2/users/:id/bookmarks was issued, in order
  fn                    \* a call of processBookmarksPage or of processBookmarks on its own

vars == <<now, settings, disk, plugin, service, inv, saveFailures, reloads, loaded,
          requests, fn>>

\* ------------------------------------------------------------ the state
\* DEFAULT_SETTINGS; a string setting is modelled by whether it is non-empty, and
\* codeVerifier by the authorization session that generated it (0 is '').
DEFAULT_SETTINGS ==
  [clientId |-> FALSE, oauth2AccessToken |-> FALSE, oauth2RefreshToken |-> FALSE,
   codeVerifier |-> 0, targetFolder |-> TRUE,
   lastSyncTimestamp |-> 0,
   nextPaginationToken |-> NoToken, initialSyncComplete |-> FALSE,
   lastSyncPage |-> 0, lastSyncTime |-> 0,
   autoSync |-> TRUE, syncInProgress |-> FALSE, bypassRateLimit |-> FALSE]

\* The fields of a new BookmarkBridgePlugin; syncTimer = 0 is null, syncTimerFor
\* tells which of the three callbacks the pending timer holds ("window": after the
\* rate window, "routine": the hourly check, "retry": after an error), and timeouts
\* are the pending setTimeout calls whose handle is not kept. authState and
\* currentCodeVerifier hold the number of the authorization session that generated
\* them (0 is null).
NewPlugin ==
  [isSyncCooldown |-> FALSE, nextAllowedSyncTime |-> 0, syncTimer |-> 0,
   syncTimerFor |-> "none", timeouts |-> {}, authState |-> 0, currentCodeVerifier |-> 0]

\* The fields of a new TwitterService.
\* refreshNotBefore is not a field of the service: it is the end of the wait the
\* provider asked for in its last 429 answer to a token refresh (waitTime of
\* refreshAccessToken, which the code logs and drops), 0 when there was none.
NewService == [lastApiCallTime |-> 0, apiCallsInProgress |-> FALSE, refreshNotBefore |-> 0]

\* A syncBookmarks invocation: where it is suspended, its locals, and the caller
\* it was started by (via).
IdleInv ==
  [pc |-> "idle", auto |-> FALSE, start |-> 0, threw |-> FALSE, saveOk |-> TRUE,
   acquired |-> FALSE, arg |-> 0, token |-> NoToken, nextToken |-> NoToken,
   bookmarks |-> <<>>, outcome |-> "none", via |-> "none", caught |-> "none"]

\* No function is called on its own while the plugin runs.
NoCall == [op |-> "none"]

\* The mutable state a handler works on, threaded through its statements.
Cur ==
  [s |-> settings, d |-> disk, pl |-> plugin, sv |-> service, sf |-> saveFailures,
   req |-> requests]

Commit(M) ==
  /\ settings' = M.s
  /\ disk' = M.d
  /\ plugin' = M.pl
  /\ service' = M.sv
  /\ saveFailures' = M.sf
  /\ requests' = M.req
  /\ M.sf <= MaxSaveFailures

\* What a stretch of syncBookmarks leaves: the state, the invocation (idle when it
\* returned) and, when it returned, how.
Suspended(M, i) == [m |-> M, i |-> i, ret |-> "none"]
Returned(M, how) == [m |-> M, i |-> IdleInv, ret |-> how]
\* The invocation a caller has started, if it is still running when the caller yields.
StartedBy(r, caller) == IF r.i.pc = "idle" THEN r ELSE [r EXCEPT !.i.via = caller]

\* ---------------------------------------------------------- the helpers
\* saveSettings: saveData writes the settings object as it is at the call; ok = FALSE
\* is a rejected write.
saveSettings(M, ok) ==
  [M EXCEPT !.d = IF ok THEN M.s ELSE M.d, !.sf = IF ok THEN M.sf ELSE M.sf + 1]

validateSettings(s) == s.clientId /\ s.oauth2AccessToken /\ s.targetFolder

neverInCooldown(pl) == FALSE

isInCooldown(pl) == now < pl.nextAllowedSyncTime

addTimeout(M, kind, due) ==
  [M EXCEPT !.pl.timeouts = @ \cup {[kind |-> kind, due |-> due]}]

\* setCooldown; an expiry timer due after the clock stops never fires and is not kept.
setCooldown(M, durationMs) ==
  LET M1 == [M EXCEPT !.pl.isSyncCooldown = TRUE,
                      !.pl.nextAllowedSyncTime = now + durationMs]
  IN IF now + durationMs <= MaxTime
     THEN addTimeout(M1, "cooldownExpiry", now + durationMs)
     ELSE M1

\* A gate that still blocks at the very end of the window.
isRateLimitedInclusive(s, sv) ==
  IF s.bypassRateLimit THEN FALSE
  ELSE LET lastRelevantTime == Max(sv.lastApiCallTime, s.lastSyncTime) IN
       IF lastRelevantTime = 0 THEN FALSE
       ELSE now - lastRelevantTime <= apiRateLimitWindow

isRateLimited(s, sv) ==
  IF s.bypassRateLimit THEN FALSE
  ELSE LET lastRelevantTime == Max(sv.lastApiCallTime, s.lastSyncTime) IN
       IF lastRelevantTime = 0 THEN FALSE
       ELSE now - lastRelevantTime < apiRateLimitWindow

\* A check that never throws.
checkNeverThrows(s, sv) == FALSE

\* checkRateLimitStatus: TRUE when it throws; it returns false otherwise.
checkRateLimitStatus(s, sv) ==
  IF s.bypassRateLimit THEN FALSE
  ELSE LET lastRelevantTime == Max(sv.lastApiCallTime, s.lastSyncTime) IN
       IF lastRelevantTime = 0 THEN FALSE
       ELSE now - lastRelevantTime < apiRateLimitWindow

\* A call that records nothing.
recordNothing(M, ok) == M

\* updateRateLimitTimestamp: a rejected save is caught and logged.
updateRateLimitTimestamp(M, ok) ==
  saveSettings([M EXCEPT !.sv.lastApiCallTime = now, !.s.lastSyncTime = now], ok)

\* A cutoff test that keeps a tweet created at the cutoff.
SkipOlderOnly(tweet, lastSyncTimestamp) ==
  lastSyncTimestamp > 0 /\ tweet.createdAt < lastSyncTimestamp

\* The cutoff test of processBookmarksPage: TRUE when the tweet is skipped.
SkipTweet(tweet, lastSyncTimestamp) ==
  lastSyncTimestamp > 0 /\ tweet.createdAt <= lastSyncTimestamp

RECURSIVE processBookmarksPage(_, _)
processBookmarksPage(data, lastSyncTimestamp) ==
  IF data = <<>> THEN <<>>
  ELSE IF SkipTweet(Head(data), lastSyncTimestamp)
       THEN processBookmarksPage(Tail(data), lastSyncTimestamp)
       ELSE <<Head(data)>> \o processBookmarksPage(Tail(data), lastSyncTimestamp)

\* --------------------------------------------- syncBookmarks, by stretch
\* The error messages syncBookmarks tells apart: 'Authentication refreshed',
\* 'wait approximately N more minutes', anything else.
ErrRefreshed == [kind |-> "refreshed", minutes |-> 0]
ErrWait(n) == [kind |-> "wait", minutes |-> n]
ErrOther == [kind |-> "other", minutes |-> 0]

\* finally of syncBookmarks: clear the flag, await saveSettings.
finallyBlock(M, i, how, ok) ==
  Suspended(saveSettings([M EXCEPT !.s.syncInProgress = FALSE], ok),
            [IdleInv EXCEPT !.pc = "finally_save", !.auto = i.auto, !.start = i.start,
                            !.acquired = i.acquired, !.saveOk = ok, !.outcome = how,
                            !.via = i.via, !.caught = i.caught])

\* The cooldown after a failed attempt: parsed from the message, else five minutes.
errorCooldownTime(err) ==
  IF err.kind = "wait" THEN (err.minutes + 1) * 60 * 1000 ELSE ErrorCooldown

\* A catch block that schedules the retry for a manual sync as well.
catchAlwaysRetrying(M, i, err, how, ok) ==
  LET M1 == IF err.kind = "refreshed"
            THEN addTimeout(setCooldown(M, RefreshCooldown), "retry",
                            now + RefreshCooldown + RetryExtraDelay)
            ELSE LET cooldownTime == errorCooldownTime(err) IN
                 [setCooldown(M, cooldownTime)
                    EXCEPT !.pl.syncTimer = now + cooldownTime + RetryExtraDelay,
                           !.pl.syncTimerFor = "retry"]
  IN finallyBlock(M1, i, how, ok)

\* catch (fetchError) of syncBookmarks, then its finally.
catchFetchError(M, i, err, how, ok) ==
  LET M1 == IF err.kind = "refreshed"
            THEN LET c == setCooldown(M, RefreshCooldown) IN
                 IF i.auto THEN addTimeout(c, "retry", now + RefreshCooldown + RetryExtraDelay)
                 ELSE c
            ELSE LET cooldownTime == errorCooldownTime(err)
                     c == setCooldown(M, cooldownTime) IN
                 IF i.auto THEN [c EXCEPT !.pl.syncTimer = now + cooldownTime + RetryExtraDelay,
                                          !.pl.syncTimerFor = "retry"]
                 ELSE c
  IN finallyBlock(M1, i, how, ok)

\* A check that rejects nothing.
syncNeverInProgress(s) == FALSE

\* The in-progress check of syncBookmarks: TRUE when the invocation is rejected.
syncAlreadyInProgress(s) == s.syncInProgress

\* syncBookmarks from the in-progress check to the await of saveSettings.
acquireGuard(M, i, ok) ==
  IF syncAlreadyInProgress(M.s) THEN Returned(M, "declined")
  ELSE Suspended(saveSettings([M EXCEPT !.s.syncInProgress = TRUE], ok),
                 [i EXCEPT !.pc = "guard_save", !.saveOk = ok, !.acquired = TRUE])

\* syncBookmarks from its entry to its first await.
syncBookmarksStart(M, isAutoSync, ok) ==
  LET i == [IdleInv EXCEPT !.auto = isAutoSync, !.start = now] IN
  IF ~validateSettings(M.s) THEN Returned(M, "declined")
  ELSE IF ~M.s.bypassRateLimit /\ isInCooldown(M.pl) THEN Returned(M, "declined")
  ELSE IF ~M.s.bypassRateLimit
       THEN Suspended(M, [i EXCEPT !.pc = "rate_check",
                                   !.threw = checkRateLimitStatus(M.s, M.sv)])
       ELSE acquireGuard(M, i, ok)

\* After await checkRateLimitStatus().
afterRateCheck(M, i, ok) ==
  IF i.threw THEN Returned(M, "declined") ELSE acquireGuard(M, i, ok)

\* The outer catch and the finally of fetchBookmarks; e is the error caught:
\* "429", "401", "error" (another API error) or "plain" (an Error without a code).
fetchCatch(M, i0, e, how, okTs, okFin) ==
  LET i == [i0 EXCEPT !.caught = e] IN
  IF e = "429"
  THEN catchFetchError([updateRateLimitTimestamp(M, okTs) EXCEPT !.sv.apiCallsInProgress = FALSE],
                       i, ErrOther, how, okFin)
  ELSE IF M.s.oauth2RefreshToken /\ ~isRateLimited(M.s, M.sv) /\ e = "401"
       THEN IF ~M.s.clientId
            THEN catchFetchError([M EXCEPT !.sv.apiCallsInProgress = FALSE],
                                 i, ErrOther, how, okFin)
            ELSE Suspended(updateRateLimitTimestamp(M, okTs), [i EXCEPT !.pc = "refresh_wait"])
       ELSE catchFetchError([M EXCEPT !.sv.apiCallsInProgress = FALSE],
                            i, ErrOther, how, okFin)

\* fetchBookmarks from its entry to the dispatch of GET /2/users/me.
fetchBookmarksStart(M, i, okTs, okFin) ==
  IF M.sv.apiCallsInProgress THEN catchFetchError(M, i, ErrOther, "fetch_error", okFin)
  ELSE IF isRateLimited(M.s, M.sv)
       THEN LET timeElapsed == now - Max(M.sv.lastApiCallTime, M.s.lastSyncTime)
                timeToWait == CeilMinutes(apiRateLimitWindow - timeElapsed)
            IN catchFetchError(M, i, ErrWait(timeToWait), "rate_limit_wait", okFin)
       ELSE LET M1 == [M EXCEPT !.sv.apiCallsInProgress = TRUE] IN
            IF ~M.s.oauth2AccessToken
            THEN fetchCatch(M1, i, "plain", "fetch_error", okTs, okFin)
            ELSE Suspended(updateRateLimitTimestamp(M1, okTs),
                           [i EXCEPT !.pc = "me_wait", !.arg = M.s.lastSyncTimestamp])

\* After await saveSettings() that follows the acquisition of the guard.
afterGuardSave(M, i, okTs, okFin) ==
  IF ~i.saveOk THEN Returned(M, "guard_save_failed")
  ELSE fetchBookmarksStart(M, i, okTs, okFin)

\* A request that never carries a token.
neverAToken(s) == NoToken

\* The token the bookmarks request carries.
paginationToken(s) ==
  IF ~s.initialSyncComplete /\ s.nextPaginationToken # NoToken
  THEN s.nextPaginationToken ELSE NoToken

\* After await client.v2.me(): up to the dispatch of the bookmarks request.
meResponse(M, i, r, okTs, okFin) ==
  IF r = "ok"
  THEN Suspended([updateRateLimitTimestamp(M, okTs) EXCEPT !.req = Append(@, now)],
                 [i EXCEPT !.pc = "bm_wait", !.token = paginationToken(M.s)])
  ELSE IF r = "429" THEN fetchCatch(M, i, "plain", "rate_limit_error", okTs, okFin)
  ELSE fetchCatch(M, i, r, "fetch_error", okTs, okFin)

\* A cursor update that marks the sync complete after every page.
updateCursorAlwaysComplete(s, nextToken) ==
  [s EXCEPT !.nextPaginationToken = nextToken, !.initialSyncComplete = TRUE]

\* A cursor update that leaves the stored token in place on the last page.
updateCursorKeepingToken(s, nextToken) ==
  IF nextToken # NoToken
  THEN [s EXCEPT !.nextPaginationToken = nextToken, !.initialSyncComplete = FALSE]
  ELSE [s EXCEPT !.initialSyncComplete = TRUE]

\* The cursor after a page: with a next_token the sync is not complete.
updateCursor(s, nextToken) ==
  IF nextToken # NoToken
  THEN [s EXCEPT !.nextPaginationToken = nextToken, !.initialSyncComplete = FALSE]
  ELSE [s EXCEPT !.nextPaginationToken = NoToken, !.initialSyncComplete = TRUE]

\* After await client.v2.bookmarks(): data is data.data, nextToken meta.next_token.
bookmarksResponse(M, i, r, data, nextToken, okTs, okFin) ==
  IF r = "ok"
  THEN LET bookmarks == processBookmarksPage(data,
                          IF M.s.initialSyncComplete THEN i.arg ELSE 0)
           s1 == updateCursor([M.s EXCEPT !.lastSyncPage = @ + 1], nextToken)
       IN Suspended(saveSettings([M EXCEPT !.s = s1], okTs),
                    [i EXCEPT !.pc = "cursor_save", !.saveOk = okTs, !.bookmarks = bookmarks,
                             !.nextToken = nextToken])
  ELSE IF r = "429"
       THEN fetchCatch(updateRateLimitTimestamp(M, okTs), i, "plain", "rate_limit_error", TRUE, okFin)
       ELSE fetchCatch(M, i, r, "fetch_error", okTs, okFin)

\* After await saveSettingsCallback() that persists the cursor: the return of
\* fetchBookmarks and syncBookmarks up to its next await.
afterCursorSave(M, i, okA, okFin) ==
  IF ~i.saveOk THEN fetchCatch(M, i, "plain", "fetch_error", TRUE, okFin)
  ELSE LET M1 == [M EXCEPT !.sv.apiCallsInProgress = FALSE] IN
       IF Len(i.bookmarks) = 0
       THEN LET M2 == setCooldown(M1, EmptyCooldown) IN
            IF i.auto
            THEN Suspended(saveSettings([M2 EXCEPT !.s.syncInProgress = FALSE], okA),
                           [i EXCEPT !.pc = "empty_save", !.saveOk = okA])
            ELSE finallyBlock(M2, i, "empty", okFin)
       ELSE Suspended(M1, [i EXCEPT !.pc = "processing"])

\* After await saveSettings() of an automatic sync that found nothing.
afterEmptySave(M, i, okFin) ==
  IF ~i.saveOk THEN catchFetchError(M, i, ErrOther, "save_error", okFin)
  ELSE finallyBlock(addTimeout(M, "check", now + EmptyCheckDelay), i, "empty", okFin)

\* lastSyncTimestamp moved after every written page.
advanceAlways(s) == [s EXCEPT !.lastSyncTimestamp = now]

\* lastSyncTimestamp moves only when the initial sync is complete.
advanceLastSyncTimestamp(s) ==
  IF s.initialSyncComplete THEN [s EXCEPT !.lastSyncTimestamp = now] ELSE s

\* A processing step that moves lastSyncTimestamp and the cursor even when the
\* writing failed.
processDoneAdvancing(M, i, written, okA, okFin) ==
  catchFetchError([M EXCEPT !.s.lastSyncTimestamp = now, !.s.initialSyncComplete = TRUE,
                            !.s.nextPaginationToken = NoToken],
                  i, ErrOther, "processing_error", okFin)

\* After await bookmarkProcessor.processBookmarks(bookmarks); written = FALSE when it threw.
processDone(M, i, written, okA, okFin) ==
  IF ~written THEN catchFetchError(M, i, ErrOther, "processing_error", okFin)
  ELSE LET s1 == advanceLastSyncTimestamp(M.s) IN
       Suspended(saveSettings([M EXCEPT !.s = [s1 EXCEPT !.syncInProgress = FALSE]], okA),
                 [i EXCEPT !.pc = "release_save", !.saveOk = okA])

\* After await saveSettings() that follows a written page.
afterReleaseSave(M, i, okFin) ==
  IF ~i.saveOk THEN catchFetchError(M, i, ErrOther, "save_error", okFin)
  ELSE LET M1 == setCooldown(M, SuccessCooldown) IN
       finallyBlock(IF i.auto THEN addTimeout(M1, "check", now + SuccessCheckDelay) ELSE M1,
                    i, "success", okFin)

\* After await saveSettings() of the finally block: syncBookmarks returns (or rejects).
afterFinallySave(M, i) == Returned(M, i.outcome)

\* The wait times a 429 answer to a token refresh can carry: the default of
\* refreshAccessToken, or the retry-after header.
DefaultRefreshWait == 15 * 60 * 1000
RefreshWaits == {DefaultRefreshWait, RetryAfterSecs * 1000}

\* A refresh after which fetchBookmarks issues the bookmarks request again.
refreshThenRetry(M, i, r, waitTime, okSave, okFin) ==
  Suspended([M EXCEPT !.req = Append(@, now)], [i EXCEPT !.pc = "bm_wait"])

\* After the token request of refreshAccessToken: r is "ok" (2xx), "429" (waitTime
\* is the wait it carries) or "error"; then the rest of the outer catch of
\* fetchBookmarks.
refreshResponse(M, i, r, waitTime, okSave, okFin) ==
  IF r = "ok" /\ okSave
  THEN catchFetchError([saveSettings(M, TRUE) EXCEPT !.sv.apiCallsInProgress = FALSE],
                       i, ErrRefreshed, "refreshed", okFin)
  ELSE LET M1 == IF r = "ok" THEN saveSettings(M, FALSE)
                 ELSE IF r = "429" THEN [M EXCEPT !.sv.refreshNotBefore = now + waitTime]
                 ELSE M
       IN catchFetchError([M1 EXCEPT !.sv.apiCallsInProgress = FALSE],
                          i, ErrOther, "fetch_error", okFin)

\* checkAndScheduleSync up to its end, or into syncBookmarks(true) up to its first await.
checkAndScheduleSync(M, ok) ==
  IF ~validateSettings(M.s) THEN Returned(M, "none")
  ELSE IF M.s.syncInProgress \/ (~M.s.bypassRateLimit /\ isInCooldown(M.pl))
       THEN Returned(M, "none")
  ELSE LET timeElapsed == now - M.s.lastSyncTime IN
       IF ~M.s.initialSyncComplete
       THEN IF M.s.bypassRateLimit \/ M.s.lastSyncTime = 0 \/ timeElapsed >= RATE_LIMIT_WINDOW
            THEN syncBookmarksStart(M, TRUE, ok)
            ELSE LET timeToWait == RATE_LIMIT_WINDOW - timeElapsed
                     M1 == saveSettings([M EXCEPT !.s.syncInProgress = FALSE], ok)
                 IN IF ~ok THEN Returned(M1, "none")
                    ELSE Returned([setCooldown(M1, timeToWait)
                                     EXCEPT !.pl.syncTimer = now + timeToWait,
                                            !.pl.syncTimerFor = "window"], "none")
       ELSE IF M.s.autoSync
            THEN LET CHECK_INTERVAL == IF M.s.bypassRateLimit THEN CheckIntervalBypass
                                       ELSE CheckIntervalNormal
                     M1 == IF ~M.s.bypassRateLimit THEN setCooldown(M, RoutineCooldown) ELSE M
                 IN Returned([M1 EXCEPT !.pl.syncTimer = now + CHECK_INTERVAL,
                                        !.pl.syncTimerFor = "routine"], "none")
            ELSE Returned(M, "none")

startAutoSync(M, ok) ==
  IF M.pl.isSyncCooldown \/ M.s.syncInProgress THEN Returned(M, "none")
  ELSE checkAndScheduleSync([M EXCEPT !.pl.syncTimer = 0, !.pl.syncTimerFor = "none"], ok)

\* loadSettings: DEFAULT_SETTINGS overridden by data.json, every field as saved.
loadSettings(d) == d

\* onload on a fresh plugin instance.
onload(M, ok) ==
  LET M1 == [M EXCEPT !.s = loadSettings(M.d), !.pl = NewPlugin, !.sv = NewService] IN
  IF M1.s.autoSync THEN startAutoSync(M1, ok) ELSE Returned(M1, "none")

\* ------------------------------------------------------------ the actions
\* The slot a new invocation takes: the lowest idle one.
Free(p) == inv[p].pc = "idle" /\ \A q \in Procs : q < p => inv[q].pc # "idle"

\* An invocation awaits a promise that is already settled (checkRateLimitStatus has
\* no await of its own): it resumes in the microtask queue, before any timer or
\* input event is handled.
Resuming == \E p \in Procs : inv[p].pc = "rate_check"

\* An invocation awaits a write of data.json or of the notes: the write completes
\* within the resolution of the clock.
Writing ==
  \E p \in Procs : inv[p].pc \in {"guard_save", "cursor_save", "empty_save", "processing",
                                  "release_save", "finally_save"}

\* The timers that are pending and due.
DueTimeouts == {t \in plugin.timeouts : t.due <= now}
SyncTimerDue == plugin.syncTimer # 0 /\ plugin.syncTimer <= now

Apply(p, r) ==
  /\ Commit(r.m)
  /\ inv' = [inv EXCEPT ![p] = r.i]
  /\ UNCHANGED <<now, reloads, loaded, fn>>

\* data.json of an installed plugin: the defaults (the rate-limit bypass is off),
\* the client id entered, connected to the provider or not, automatic sync on or off.
Init ==
  /\ now = StartTime
  /\ \E token, auto \in BOOLEAN :
       disk = [DEFAULT_SETTINGS EXCEPT !.clientId = TRUE,
                                       !.oauth2AccessToken = token,
                                       !.oauth2RefreshToken = token,
                                       !.autoSync = auto]
  /\ settings = disk
  /\ plugin = NewPlugin
  /\ service = NewService
  /\ inv = [p \in Procs |-> IdleInv]
  /\ saveFailures = 0
  /\ reloads = 0
  /\ loaded = FALSE
  /\ requests = <<>>
  /\ fn = NoCall

\* The app starts the plugin.
Load ==
  /\ ~loaded
  /\ \E ok \in BOOLEAN :
       LET r == StartedBy(onload(Cur, ok), "check") IN
       /\ Commit(r.m)
       /\ inv' = [inv EXCEPT ![1] = r.i]
  /\ loaded' = TRUE
  /\ UNCHANGED <<now, reloads, fn>>

\* The app is closed: the tasks, the timers and the objects in memory are gone.
Restart ==
  /\ loaded
  /\ reloads < MaxReloads
  /\ loaded' = FALSE
  /\ reloads' = reloads + 1
  /\ settings' = disk
  /\ plugin' = NewPlugin
  /\ service' = NewService
  /\ inv' = [p \in Procs |-> IdleInv]
  /\ UNCHANGED <<now, disk, saveFailures, requests, fn>>

\* The ribbon icon, the command or the Sync Now button: syncBookmarks().
ManualSync ==
  /\ loaded /\ ~Resuming
  /\ \E p \in Procs, ok \in BOOLEAN :
       Free(p) /\ Apply(p, StartedBy(syncBookmarksStart(Cur, FALSE, ok), "manual"))

\* this.syncTimer fires: syncBookmarks(true).
SyncTimerFires ==
  /\ loaded /\ ~Resuming /\ SyncTimerDue
  /\ \E p \in Procs, ok \in BOOLEAN :
       /\ Free(p)
       /\ Apply(p, StartedBy(syncBookmarksStart([Cur EXCEPT !.pl.syncTimer = 0,
                                                            !.pl.syncTimerFor = "none"],
                                                TRUE, ok),
                             plugin.syncTimerFor))

\* setTimeout(() => this.checkAndScheduleSync(), ...) fires.
CheckTimeoutFires ==
  /\ loaded /\ ~Resuming
  /\ \E t \in DueTimeouts, p \in Procs, ok \in BOOLEAN :
       /\ t.kind = "check" /\ Free(p)
       /\ Apply(p, StartedBy(checkAndScheduleSync([Cur EXCEPT !.pl.timeouts = @ \ {t}], ok),
                             "check"))

\* The retry armed after a token refresh fires: syncBookmarks(true).
RetryTimeoutFires ==
  /\ loaded /\ ~Resuming
  /\ \E t \in DueTimeouts, p \in Procs, ok \in BOOLEAN :
       /\ t.kind = "retry" /\ Free(p)
       /\ Apply(p, StartedBy(syncBookmarksStart([Cur EXCEPT !.pl.timeouts = @ \ {t}], TRUE, ok),
                             "refreshed"))

\* The expiry timer of setCooldown fires.
CooldownExpires ==
  /\ loaded /\ ~Resuming
  /\ \E t \in DueTimeouts :
       /\ t.kind = "cooldownExpiry"
       /\ plugin' = [plugin EXCEPT !.isSyncCooldown = FALSE, !.timeouts = @ \ {t}]
  /\ UNCHANGED <<now, settings, disk, service, inv, saveFailures, reloads, loaded,
                 requests, fn>>

RateCheckDone ==
  \E p \in Procs, ok \in BOOLEAN :
    /\ inv[p].pc = "rate_check"
    /\ Apply(p, afterRateCheck(Cur, inv[p], ok))

GuardSaveDone ==
  \E p \in Procs, okTs, okFin \in BOOLEAN :
    /\ inv[p].pc = "guard_save" /\ ~Resuming
    /\ Apply(p, afterGuardSave(Cur, inv[p], okTs, okFin))

MeResponds ==
  \E p \in Procs, r \in ApiOutcomes, okTs, okFin \in BOOLEAN :
    /\ inv[p].pc = "me_wait" /\ ~Resuming
    /\ Apply(p, meResponse(Cur, inv[p], r, okTs, okFin))

BookmarksRespond ==
  \E p \in Procs, r \in ApiOutcomes, data \in ProviderPages, nextToken \in Tokens \cup {NoToken},
     okTs, okFin \in BOOLEAN :
    /\ inv[p].pc = "bm_wait" /\ ~Resuming
    /\ r = "ok" => settings.lastSyncPage < MaxPage
    /\ Apply(p, bookmarksResponse(Cur, inv[p], r, data, nextToken, okTs, okFin))

RefreshResponds ==
  \E p \in Procs, r \in {"ok", "429", "error"}, waitTime \in RefreshWaits,
     okSave, okFin \in BOOLEAN :
    /\ inv[p].pc = "refresh_wait" /\ ~Resuming
    /\ r # "429" => waitTime = DefaultRefreshWait
    /\ Apply(p, refreshResponse(Cur, inv[p], r, waitTime, okSave, okFin))

CursorSaveDone ==
  \E p \in Procs, okA, okFin \in BOOLEAN :
    /\ inv[p].pc = "cursor_save" /\ ~Resuming
    /\ Apply(p, afterCursorSave(Cur, inv[p], okA, okFin))

EmptySaveDone ==
  \E p \in Procs, okFin \in BOOLEAN :
    /\ inv[p].pc = "empty_save" /\ ~Resuming
    /\ Apply(p, afterEmptySave(Cur, inv[p], okFin))

ProcessBookmarksDone ==
  \E p \in Procs, written, okA, okFin \in BOOLEAN :
    /\ inv[p].pc = "processing" /\ ~Resuming
    /\ Apply(p, processDone(Cur, inv[p], written, okA, okFin))

ReleaseSaveDone ==
  \E p \in Procs, okFin \in BOOLEAN :
    /\ inv[p].pc = "release_save" /\ ~Resuming
    /\ Apply(p, afterReleaseSave(Cur, inv[p], okFin))

FinallySaveDone ==
  \E p \in Procs :
    /\ inv[p].pc = "finally_save" /\ ~Resuming
    /\ Apply(p, afterFinallySave(Cur, inv[p]))

\* The earliest pending timer, or far away.
NextDue ==
  LET dues == {t.due : t \in plugin.timeouts} \cup
              (IF plugin.syncTimer # 0 THEN {plugin.syncTimer} ELSE {})
  IN IF dues = {} THEN MaxTime ELSE CHOOSE d \in dues : \A e \in dues : d <= e

\* Time passes, up to the next timer; a due timer fires before time moves on.
Tick ==
  /\ loaded /\ ~Resuming /\ ~Writing
  /\ DueTimeouts = {} /\ ~SyncTimerDue
  /\ now' = Min(Min(now + TickStep, NextDue), MaxTime)
  /\ now' > now
  /\ UNCHANGED <<settings, disk, plugin, service, inv, saveFailures, reloads, loaded,
                 requests, fn>>

Next ==
  \/ Load
  \/ Restart
  \/ ManualSync
  \/ SyncTimerFires
  \/ CheckTimeoutFires
  \/ RetryTimeoutFires
  \/ CooldownExpires
  \/ RateCheckDone
  \/ GuardSaveDone
  \/ MeResponds
  \/ BookmarksRespond
  \/ RefreshResponds
  \/ CursorSaveDone
  \/ EmptySaveDone
  \/ ProcessBookmarksDone
  \/ ReleaseSaveDone
  \/ FinallySaveDone
  \/ Tick

Spec == Init /\ [][Next]_vars
\* ------------------------------------------- processBookmarksPage on its own
\* The plugin is not running while a function is exercised on its own.
PluginIdle ==
  /\ now = StartTime
  /\ disk = DEFAULT_SETTINGS
  /\ settings = disk
  /\ plugin = NewPlugin
  /\ service = NewService
  /\ inv = [p \in Procs |-> IdleInv]
  /\ saveFailures = 0
  /\ reloads = 0
  /\ loaded = FALSE
  /\ requests = <<>>

PluginUnchanged ==
  UNCHANGED <<now, settings, disk, plugin, service, inv, saveFailures, reloads, loaded,
              requests>>

\* The sequences over S of length at most n.
SeqsUpTo(S, n) == UNION {[1..k -> S] : k \in 0..n}

\* Tweet ids, and created_at values (an ISO-8601 time with milliseconds, which
\* new Date(..).getTime() turns into its milliseconds) around the cutoff.
TweetIds == 1..MaxIds
CreatedAts == {CutoffTime - 1, CutoffTime, CutoffTime + 1}
RawTweets == {Tweet(i, c) : i \in TweetIds, c \in CreatedAts}

\* A response page, settings.lastSyncTimestamp and settings.initialSyncComplete.
InitPage ==
  /\ PluginIdle
  /\ \E data \in SeqsUpTo(RawTweets, MaxLen), ts \in {0, CutoffTime}, complete \in BOOLEAN :
       fn = [op |-> "page", pc |-> "call", data |-> data, lastSyncTimestamp |-> ts,
             initialSyncComplete |-> complete, bookmarks |-> <<>>]

\* The call of processBookmarksPage in fetchBookmarks.
CallProcessBookmarksPage ==
  /\ fn.pc = "call"
  /\ fn' = [fn EXCEPT !.pc = "return",
                      !.bookmarks = processBookmarksPage(fn.data,
                                      IF fn.initialSyncComplete THEN fn.lastSyncTimestamp ELSE 0)]
  /\ PluginUnchanged

NextPage == CallProcessBookmarksPage

SpecPage == InitPage /\ [][NextPage]_vars

\* ------------------------------------------------ processBookmarks on its own
\* BookmarkStorage.processedBookmarks: id -> Date.now() of the marking; 0 stands for
\* an id that is not a key.
NoLedger == [id \in TweetIds |-> 0]

\* A ledger lookup that finds nothing.
neverProcessed(processedBookmarks, id) == FALSE

\* isBookmarkProcessed: !!processedBookmarks[id]
isBookmarkProcessed(processedBookmarks, id) == processedBookmarks[id] # 0

\* markBookmarkAsProcessed at time t
markBookmarkAsProcessed(processedBookmarks, id, t) == [processedBookmarks EXCEPT ![id] = t]

\* The vault and the ledger: notes holds the ids that have a note file of their own,
\* single the tweets of the single file in order, writes counts the files written by
\* the running call and threw tells that it threw.
NewVault ==
  [processedBookmarks |-> NoLedger, notes |-> {}, single |-> <<>>, writes |-> 0,
   threw |-> FALSE]

\* processSeparateFileBookmarks from the k-th bookmark on; saveToFile throws at the
\* failAt-th bookmark.
RECURSIVE processSeparateFileBookmarks(_, _, _, _, _)
processSeparateFileBookmarks(bookmarks, V, k, failAt, t) ==
  IF k > Len(bookmarks) THEN V
  ELSE IF isBookmarkProcessed(V.processedBookmarks, bookmarks[k])
       THEN processSeparateFileBookmarks(bookmarks, V, k + 1, failAt, t)
       ELSE IF failAt = k THEN [V EXCEPT !.threw = TRUE]
            ELSE processSeparateFileBookmarks(bookmarks,
                   [V EXCEPT !.notes = @ \cup {bookmarks[k]},
                             !.writes = @ + 1,
                             !.processedBookmarks =
                                markBookmarkAsProcessed(@, bookmarks[k], t)],
                   k + 1, failAt, t)

\* The loop of processSingleFileBookmarks from the k-th bookmark on: A holds the
\* ledger, existingContent and newBookmarksAdded.
RECURSIVE singleFileLoop(_, _, _, _)
singleFileLoop(bookmarks, A, k, t) ==
  IF k > Len(bookmarks) THEN A
  ELSE IF isBookmarkProcessed(A.processedBookmarks, bookmarks[k])
       THEN singleFileLoop(bookmarks, A, k + 1, t)
       ELSE singleFileLoop(bookmarks,
              [processedBookmarks |-> markBookmarkAsProcessed(A.processedBookmarks,
                                                              bookmarks[k], t),
               existingContent |-> Append(A.existingContent, bookmarks[k]),
               newBookmarksAdded |-> TRUE],
              k + 1, t)

\* processSingleFileBookmarks; saveToFile throws when failSave.
processSingleFileBookmarks(bookmarks, V, failSave, t) ==
  LET A == singleFileLoop(bookmarks,
                          [processedBookmarks |-> V.processedBookmarks,
                           existingContent |-> V.single,
                           newBookmarksAdded |-> FALSE], 1, t)
      V1 == [V EXCEPT !.processedBookmarks = A.processedBookmarks]
  IN IF ~A.newBookmarksAdded THEN V1
     ELSE IF failSave THEN [V1 EXCEPT !.threw = TRUE]
          ELSE [V1 EXCEPT !.single = A.existingContent, !.writes = @ + 1]

\* processBookmarks with settings.storageMethod = storageMethod.
processBookmarks(bookmarks, V, storageMethod, failAt, t) ==
  LET V0 == [V EXCEPT !.writes = 0, !.threw = FALSE] IN
  IF Len(bookmarks) = 0 THEN V0
  ELSE IF storageMethod = "single"
       THEN processSingleFileBookmarks(bookmarks, V0, failAt # 0, t)
       ELSE processSeparateFileBookmarks(bookmarks, V0, 1, failAt, t)

\* An empty vault and ledger; time counts the calls.
InitWriter ==
  /\ PluginIdle
  /\ fn = [op |-> "writer", passes |-> 0, bookmarks |-> <<>>, vault |-> NewVault,
            before |-> NewVault, previous |-> <<>>, previousThrew |-> TRUE]

\* One call of processBookmarks, on any page; fn keeps the page and the outcome of
\* the call before it, and the vault and ledger as they were when this call began.
CallProcessBookmarks ==
  /\ fn.passes < MaxPasses
  /\ \E bookmarks \in SeqsUpTo(TweetIds, MaxLen), storageMethod \in {"separate", "single"},
        failAt \in 0..MaxLen :
       fn' = [op |-> "writer", passes |-> fn.passes + 1, bookmarks |-> bookmarks,
              vault |-> processBookmarks(bookmarks, fn.vault, storageMethod, failAt,
                                         fn.passes + 1),
              before |-> fn.vault, previous |-> fn.bookmarks,
              previousThrew |-> fn.vault.threw \/ fn.passes = 0]
  /\ PluginUnchanged

NextWriter == CallProcessBookmarks

SpecWriter == InitWriter /\ [][NextWriter]_vars

\* ============================================================== properties
\* An invocation that has not reached the in-progress check of syncBookmarks.
BeforeGuard(p) == inv[p].pc \in {"idle", "rate_check"}

\* The invocation of slot p takes this step, and the app is not closed by it.
StepOf(p) == inv'[p] # inv[p] /\ loaded'

\* C1: an invocation of syncBookmarks that runs while settings.syncInProgress is true
\* never gets past the in-progress check: each of its steps leaves it declined or
\* still before the check, issues no request, and leaves the settings (cursor,
\* lastSyncTimestamp, flag), data.json, the service and the cooldown as they were.
C1_SecondInvocationDeclined ==
  [][\A p \in Procs :
       (settings.syncInProgress /\ BeforeGuard(p) /\ StepOf(p))
         => /\ BeforeGuard(p)'
            /\ requests' = requests
            /\ settings' = settings
            /\ disk' = disk
            /\ service' = service
            /\ plugin'.nextAllowedSyncTime = plugin.nextAllowedSyncTime
            /\ plugin'.isSyncCooldown = plugin.isSyncCooldown]_vars

\* A second invocation stands at the in-progress check while another one holds the guard.
C1_Witness ==
  \E p, q \in Procs :
    /\ p # q
    /\ ~BeforeGuard(q) /\ settings.syncInProgress
    /\ inv[p].pc = "rate_check" /\ ~inv[p].threw

\* C2: settings.lastSyncTimestamp changes only in a step taken while
\* settings.initialSyncComplete is true (a restart, which reads data.json back, aside).
C2_TimestampOnlyWhenComplete ==
  [][(settings'.lastSyncTimestamp # settings.lastSyncTimestamp /\ loaded')
       => settings.initialSyncComplete]_vars

\* A page was written after the initial sync completed, and lastSyncTimestamp moved.
C2_Witness ==
  /\ settings.lastSyncTimestamp > 0
  /\ \E p \in Procs : inv[p].pc = "release_save" /\ settings.lastSyncTimestamp = now

\* C3: with the bypass off, any two bookmarks-list requests the plugin issues are
\* at least one rate window (15 minutes) apart, whatever the sequence of manual
\* syncs, timer-fired syncs, failed attempts and restarts (requests records the
\* time of every GET /2/users/:id/bookmarks, across restarts).
C3_RequestsOneWindowApart ==
  ~settings.bypassRateLimit =>
    \A k, j \in 1..Len(requests) :
      k < j => requests[j] - requests[k] >= apiRateLimitWindow

\* Automatic syncing goes on: the sync timer or a check or retry timeout is pending,
\* or an automatic invocation is running.
AutoSyncArmed(pl, iv) ==
  \/ pl.syncTimer # 0
  \/ \E u \in pl.timeouts : u.kind \in {"check", "retry"}
  \/ \E p \in Procs : iv[p].pc # "idle" /\ iv[p].auto

\* C4: in automatic mode with the bypass off, the check that an automatic attempt
\* schedules after an empty result or a written page (the only place a "check"
\* timeout comes from) leaves automatic syncing armed when it has run.
C4_NextAttemptArmed ==
  [][\A t \in plugin.timeouts :
       (/\ t.kind = "check" /\ t \notin plugin'.timeouts /\ loaded'
        /\ settings.autoSync /\ ~settings.bypassRateLimit)
         => AutoSyncArmed(plugin', inv')]_vars

\* An invocation that is inside fetchBookmarks, past the setting of apiCallsInProgress.
InFetch(p) == inv[p].pc \in {"me_wait", "bm_wait", "refresh_wait", "cursor_save"}

\* C5: when an invocation of syncBookmarks that acquired the guard returns,
\* settings.syncInProgress is false, and when fetchBookmarks returns or throws,
\* apiCallsInProgress is false.
C5_GuardsReleasedOnExit ==
  [][\A p \in Procs :
       /\ (~BeforeGuard(p) /\ inv'[p].pc = "idle" /\ loaded') => ~settings'.syncInProgress
       /\ (InFetch(p) /\ ~InFetch(p)' /\ loaded') => ~service'.apiCallsInProgress]_vars

\* C6: once settings.initialSyncComplete is true it stays true in every step of the
\* running plugin, whatever the provider answers.
C6_CompleteStaysComplete ==
  [][(settings.initialSyncComplete /\ loaded') => settings'.initialSyncComplete]_vars

\* The cursor fields of a settings object.
Cursor(s) == <<s.nextPaginationToken, s.initialSyncComplete>>

\* C7: when fetchBookmarks returns after a bookmarks request that succeeded (the step
\* that follows the completed save of the cursor), the cursor in memory and in
\* data.json is the response's next_token with initialSyncComplete false, or, when
\* the response carried none, the empty token with initialSyncComplete true.
C7_CursorFollowsResponse ==
  [][\A p \in Procs :
       (inv[p].pc = "cursor_save" /\ inv[p].saveOk /\ StepOf(p))
         => /\ Cursor(settings') = <<inv[p].nextToken, inv[p].nextToken = NoToken>>
            /\ Cursor(disk') = Cursor(settings')]_vars

\* fetchBookmarks is about to return: a page with a next_token was received and the
\* cursor was saved.
C7_Witness ==
  \E p \in Procs :
    /\ inv[p].pc = "cursor_save" /\ inv[p].saveOk
    /\ inv[p].nextToken \in Tokens
    /\ Cursor(disk) = <<inv[p].nextToken, FALSE>>

\* C10: when an invocation of syncBookmarks that acquired the guard returns,
\* nextAllowedSyncTime is later than the time at which the invocation started.
C10_CooldownAfterEveryAttempt ==
  [][\A p \in Procs :
       (~BeforeGuard(p) /\ inv'[p].pc = "idle" /\ loaded')
         => plugin'.nextAllowedSyncTime > inv[p].start]_vars

\* C8: processBookmarksPage, called as fetchBookmarks calls it, returns the items of
\* the page in response order, without those created at or before lastSyncTimestamp
\* when a cutoff is active (initialSyncComplete and lastSyncTimestamp > 0), and all
\* of them when none is.
C8_PageFilteredByCutoff ==
  fn.pc = "return" =>
    LET cutoff == fn.initialSyncComplete /\ fn.lastSyncTimestamp > 0
        Kept(tweet) == cutoff => tweet.createdAt > fn.lastSyncTimestamp
    IN fn.bookmarks = SelectSeq(fn.data, Kept)

\* With a cutoff active, a page holding a tweet created at the cutoff and then one
\* created a millisecond later was filtered: only the later one is returned.
C8_Witness ==
  /\ fn.pc = "return"
  /\ fn.initialSyncComplete /\ fn.lastSyncTimestamp = CutoffTime
  /\ Len(fn.data) = 2
  /\ fn.data[1].createdAt = CutoffTime /\ fn.data[2].createdAt = CutoffTime + 1
  /\ fn.bookmarks = <<fn.data[2]>>

\* The note content of a vault, and the tweets that occur twice in the single file.
Content(V) == <<V.notes, V.single>>
Duplicated(V) ==
  {id \in TweetIds : \E k, j \in 1..Len(V.single) : k < j /\ V.single[k] = id /\ V.single[j] = id}

\* C9: no tweet is ever written twice into the single file, and a call of
\* processBookmarks on the page that the call before it processed to its end writes
\* no file and leaves the vault content and the ledger as they were.
C9_SecondPassWritesNothing ==
  /\ Duplicated(fn.vault) = {}
  /\ (fn.passes >= 2 /\ fn.bookmarks = fn.previous /\ ~fn.previousThrew)
       => /\ fn.vault.writes = 0 /\ ~fn.vault.threw
          /\ Content(fn.vault) = Content(fn.before)
          /\ fn.vault.processedBookmarks = fn.before.processedBookmarks

\* A page of two bookmarks was written by one call and processed again by the next.
C9_Witness ==
  /\ fn.passes >= 2 /\ fn.bookmarks = fn.previous /\ ~fn.previousThrew
  /\ Len(fn.bookmarks) = 2 /\ fn.bookmarks[1] # fn.bookmarks[2]
  /\ fn.before.writes > 0
  /\ \A k \in 1..2 : fn.vault.processedBookmarks[fn.bookmarks[k]] # 0

\* ----------------------------------------------------------- claims C11..C20
\* The rate-limit errors of fetchBookmarks: a provider 429 on users/me or on the
\* bookmarks request, and 'wait approximately N more minutes' of its own gate.
RateLimitOutcomes == {"rate_limit_error", "rate_limit_wait"}
\* The ways an attempt fails: an error thrown by fetchBookmarks (fetch error,
\* provider 429, authentication error) or by processBookmarks.
FailedOutcomes == {"fetch_error", "processing_error"} \cup RateLimitOutcomes

\* C11: in automatic mode with the bypass off, a failed automatic attempt leaves a
\* retry timer armed for after the cooldown, and the retry that timer starts never
\* returns with automatic syncing disarmed: it issued a fetch or armed a further
\* timer.
C11_RetryKeepsAutoSyncGoing ==
  [][\A p \in Procs :
       /\ (/\ inv[p].pc = "finally_save" /\ inv[p].auto /\ inv[p].outcome \in FailedOutcomes
           /\ inv'[p].pc = "idle" /\ loaded' /\ ~settings.bypassRateLimit)
            => /\ plugin'.syncTimerFor = "retry"
               /\ plugin'.syncTimer > plugin'.nextAllowedSyncTime
       /\ (/\ inv[p].via = "retry" /\ inv[p].pc # "idle" /\ inv'[p].pc = "idle"
           /\ loaded' /\ ~settings.bypassRateLimit)
            => AutoSyncArmed(plugin', inv')]_vars

\* The end of the rate window in force: one window after the latest recorded call.
WindowEnd(s, sv) == Max(sv.lastApiCallTime, s.lastSyncTime) + apiRateLimitWindow

\* C12: when an automatic attempt fails with a rate-limit error, the rate window
\* is consumed and the next automatic attempt is armed for no earlier than the end
\* of that window, so that the rate gate does not decline it.
C12_RetryAfterRateWindow ==
  [][\A p \in Procs :
       (/\ inv[p].pc = "finally_save" /\ inv[p].auto /\ inv[p].outcome \in RateLimitOutcomes
        /\ inv'[p].pc = "idle" /\ loaded' /\ ~settings.bypassRateLimit)
         => /\ Max(service'.lastApiCallTime, settings'.lastSyncTime) > 0
            /\ plugin'.syncTimer # 0
            /\ plugin'.syncTimer >= WindowEnd(settings', service')]_vars

\* ------------------------------------------------- the rate gate on its own
\* The times, relative to the recording of the timestamp, at which the gate is asked.
GateOffsets ==
  {0, 1, apiRateLimitWindow - 1, apiRateLimitWindow, apiRateLimitWindow + 1,
   apiRateLimitWindow + GateMargin}
\* lastApiCallTime and settings.lastSyncTime before the recording: never set, or
\* set some time ago.
EarlierTimes == {0, StartTime - apiRateLimitWindow, StartTime - 1}

InitGate ==
  /\ now \in {StartTime, StartTime + TickStep}
  /\ \E a, b \in EarlierTimes :
       /\ disk = [DEFAULT_SETTINGS EXCEPT !.lastSyncTime = b]
       /\ service = [NewService EXCEPT !.lastApiCallTime = a]
  /\ settings = disk
  /\ plugin = NewPlugin
  /\ inv = [p \in Procs |-> IdleInv]
  /\ saveFailures = 0
  /\ reloads = 0
  /\ loaded = FALSE
  /\ requests = <<>>
  /\ fn = [op |-> "gate", pc |-> "call", t |-> 0, isRateLimited |-> FALSE, threw |-> FALSE]

\* updateRateLimitTimestamp is called at time t = now.
CallUpdateRateLimitTimestamp ==
  /\ fn.pc = "call"
  /\ \E ok \in BOOLEAN : Commit(updateRateLimitTimestamp(Cur, ok))
  /\ fn' = [fn EXCEPT !.pc = "recorded", !.t = now]
  /\ UNCHANGED <<now, inv, reloads, loaded>>

\* Date.now() moves on to one of the offsets.
GateClock ==
  /\ fn.pc \in {"recorded", "asked"}
  /\ \E o \in GateOffsets : fn.t + o > now /\ now' = fn.t + o
  /\ fn' = [fn EXCEPT !.pc = "recorded"]
  /\ UNCHANGED <<settings, disk, plugin, service, inv, saveFailures, reloads, loaded,
                 requests>>

\* isRateLimited() and checkRateLimitStatus() are called.
AskGate ==
  /\ fn.pc = "recorded"
  /\ fn' = [fn EXCEPT !.pc = "asked",
                      !.isRateLimited = isRateLimited(settings, service),
                      !.threw = checkRateLimitStatus(settings, service)]
  /\ PluginUnchanged

NextGate ==
  \/ CallUpdateRateLimitTimestamp
  \/ GateClock
  \/ AskGate

SpecGate == InitGate /\ [][NextGate]_vars

\* The gate blocks: isRateLimited() is true and checkRateLimitStatus() throws.
GateLimited == fn.isRateLimited /\ fn.threw
\* The gate lets through: isRateLimited() is false and checkRateLimitStatus() returns false.
GateOpen == ~fn.isRateLimited /\ ~fn.threw

\* C13 as stated: with the bypass off, after the timestamp is recorded at t the gate
\* reports not-limited at t, limited at every t' with t < t' < t + window, and
\* not-limited again at exactly t + window.
C13_GateAsStated ==
  (fn.op = "gate" /\ fn.pc = "asked" /\ ~settings.bypassRateLimit)
    => /\ now = fn.t => GateOpen
       /\ (fn.t < now /\ now < fn.t + apiRateLimitWindow) => GateLimited
       /\ now = fn.t + apiRateLimitWindow => GateOpen

\* C13, amended: with the bypass off, after the timestamp is recorded at t the gate
\* reports limited at every t' with t <= t' < t + window (t itself included), and
\* not-limited from exactly t + window on.
C13_GateWindow ==
  (fn.op = "gate" /\ fn.pc = "asked" /\ ~settings.bypassRateLimit)
    => /\ (fn.t <= now /\ now < fn.t + apiRateLimitWindow) => GateLimited
       /\ now >= fn.t + apiRateLimitWindow => GateOpen

\* The gate was asked at the very time of the recording, and it blocked.
C13_Witness ==
  /\ fn.op = "gate" /\ fn.pc = "asked" /\ ~settings.bypassRateLimit
  /\ now = fn.t /\ GateLimited

\* ------------------------------------------- authorization and logout on their own
\* Session k is the k-th call of initiateTwitterAuth that generated a state: its
\* state and its code verifier are both written k. A state no session generated:
ForgedState == MaxSessions + 1
\* A code verifier left in data.json by an earlier run.
StaleVerifier == MaxSessions + 1

\* The async calls suspended at a network or crypto await, and what left the plugin:
\* opened holds the sessions whose authorization URL was opened, exchanges the code
\* verifiers POSTed to the token endpoint (grant_type authorization_code), revokes the
\* number of POSTs to the revoke endpoint; last describes the handler that ran last
\* (flip alternates so that two equal calls in a row are told apart).
NoAuth ==
  [op |-> "auth", sessions |-> 0, tasks |-> {}, opened |-> {}, exchanges |-> <<>>,
   revokes |-> 0, last |-> [ev |-> "none", flip |-> FALSE]]

Ran(f, ev) == [f EXCEPT !.last = ev @@ [flip |-> ~f.last.flip]]

\* generateAuthUrl up to its first await: TRUE when it throws the configuration error.
generateAuthUrlThrows(s) == ~s.clientId

\* An initiateTwitterAuth that goes ahead without looking at clientId.
initiateWithoutClientId(M, f) ==
  LET k == f.sessions + 1 IN
  [m |-> [M EXCEPT !.pl.authState = k],
   f |-> Ran([f EXCEPT !.sessions = k, !.tasks = @ \cup {[kind |-> "initiate", k |-> k]}],
             [ev |-> "initiate", result |-> "awaiting"])]

\* initiateTwitterAuth up to the await of generateAuthUrl.
initiateTwitterAuth(M, f) ==
  IF ~M.s.clientId
  THEN [m |-> M, f |-> Ran(f, [ev |-> "initiate", result |-> "no_client_id"])]
  ELSE LET k == f.sessions + 1
           M1 == [M EXCEPT !.pl.authState = k]
       IN IF generateAuthUrlThrows(M1.s)
          THEN [m |-> [M1 EXCEPT !.pl.authState = 0, !.pl.currentCodeVerifier = 0],
                f |-> Ran([f EXCEPT !.sessions = k], [ev |-> "initiate", result |-> "threw"])]
          ELSE [m |-> M1,
                f |-> Ran([f EXCEPT !.sessions = k,
                                    !.tasks = @ \cup {[kind |-> "initiate", k |-> k]}],
                          [ev |-> "initiate", result |-> "awaiting"])]

\* initiateTwitterAuth after await generateAuthUrl: ok = FALSE when
\* generateCodeChallenge threw.
afterGenerateAuthUrl(M, f, task, ok) ==
  LET f1 == [f EXCEPT !.tasks = @ \ {task}] IN
  IF ok
  THEN [m |-> [M EXCEPT !.pl.currentCodeVerifier = task.k],
        f |-> Ran([f1 EXCEPT !.opened = @ \cup {task.k}],
                  [ev |-> "initiated", result |-> "opened"])]
  ELSE [m |-> [M EXCEPT !.pl.authState = 0, !.pl.currentCodeVerifier = 0],
        f |-> Ran(f1, [ev |-> "initiated", result |-> "threw"])]

\* finally of handleAuthCallback.
callbackFinally(M, okFin) ==
  LET M1 == [M EXCEPT !.pl.authState = 0, !.pl.currentCodeVerifier = 0] IN
  IF M1.s.codeVerifier # 0
  THEN saveSettings([M1 EXCEPT !.s.codeVerifier = 0], okFin)
  ELSE M1

\* A callback guard that lets every callback through.
callbackAlwaysHandled(pl) == FALSE

\* The guard of handleAuthCallback: TRUE when the callback is ignored.
callbackIgnored(pl) == pl.authState = 0 \/ pl.currentCodeVerifier = 0

\* A state check that accepts every state.
stateAlwaysValid(state, authState) == FALSE

\* The state check of handleAuthCallback: TRUE when the state is rejected.
stateInvalid(state, authState) == state = 0 \/ state # authState

\* handleAuthCallback up to its return or to the dispatch of the token request;
\* state = 0 is a missing state, code tells whether a code was received.
handleAuthCallback(M, f, state, code, okTs, okFin) ==
  LET ev == [ev |-> "callback", state |-> state, code |-> code] IN
  IF callbackIgnored(M.pl)
  THEN [m |-> M, f |-> Ran(f, ev @@ [result |-> "ignored"])]
  ELSE IF stateInvalid(state, M.pl.authState)
  THEN [m |-> [M EXCEPT !.pl.authState = 0, !.pl.currentCodeVerifier = 0],
        f |-> Ran(f, ev @@ [result |-> "invalid_state"])]
  ELSE LET M1 == [M EXCEPT !.pl.authState = 0] IN
       IF ~code
       THEN [m |-> [M1 EXCEPT !.pl.currentCodeVerifier = 0],
             f |-> Ran(f, ev @@ [result |-> "no_code"])]
       ELSE LET M2 == [M1 EXCEPT !.s.codeVerifier = M1.pl.currentCodeVerifier,
                                 !.pl.currentCodeVerifier = 0]
            IN IF ~M2.s.clientId \/ M2.s.codeVerifier = 0
               THEN [m |-> callbackFinally(M2, okFin),
                     f |-> Ran(f, ev @@ [result |-> "exchange_threw"])]
               ELSE [m |-> updateRateLimitTimestamp(M2, okTs),
                     f |-> Ran([f EXCEPT !.exchanges = Append(@, M2.s.codeVerifier),
                                         !.tasks = @ \cup {[kind |-> "exchange",
                                                             k |-> M2.s.codeVerifier,
                                                             sent |-> now]}],
                               ev @@ [result |-> "exchanging"])]

\* exchangeAuthCodeForToken after the token request, then the rest of
\* handleAuthCallback; r is "ok" (2xx with tokens), "bad_json", "status" (not 2xx)
\* or "network_error", refresh tells whether the response carried a refresh_token.
exchangeResponse(M, f, task, r, refresh, okSave, okFin) ==
  LET M1 == IF r = "ok"
            THEN saveSettings([M EXCEPT !.s.oauth2AccessToken = TRUE,
                                        !.s.oauth2RefreshToken = refresh,
                                        !.s.codeVerifier = 0], okSave)
            ELSE M
  IN [m |-> callbackFinally(M1, okFin),
      f |-> Ran([f EXCEPT !.tasks = @ \ {task}],
                [ev |-> "exchanged", at |-> now, sent |-> task.sent,
                 result |-> IF r = "ok" /\ okSave THEN "success" ELSE "failed"])]

\* The token exchanges whose response has not arrived, by their verifier.
ExchangesInFlight(f) == {task.k : task \in {e \in f.tasks : e.kind = "exchange"}}

\* revokeToken up to its return or to the dispatch of the revoke request; the request
\* remembers the exchanges in flight when it was sent.
revokeToken(M, f, okTs) ==
  IF ~M.s.oauth2AccessToken
  THEN [m |-> M, f |-> Ran(f, [ev |-> "revokeToken", returned |-> TRUE, threw |-> FALSE])]
  ELSE IF ~M.s.clientId
  THEN [m |-> M, f |-> Ran(f, [ev |-> "revokeToken", returned |-> FALSE, threw |-> FALSE])]
  ELSE [m |-> updateRateLimitTimestamp(M, okTs),
        f |-> Ran([f EXCEPT !.revokes = @ + 1,
                            !.tasks = @ \cup {[kind |-> "revoke", k |-> 0,
                                               inflight |-> ExchangesInFlight(f)]}],
                  [ev |-> "revoking"])]

\* revokeToken after the revoke request, whatever its outcome: the finally block,
\* whose saveSettingsCallback may reject, and return true.
revokeResponse(M, f, task, r, okSave) ==
  [m |-> saveSettings([M EXCEPT !.s.oauth2AccessToken = FALSE,
                                !.s.oauth2RefreshToken = FALSE,
                                !.s.codeVerifier = 0], okSave),
   f |-> Ran([f EXCEPT !.tasks = @ \ {task}],
             [ev |-> "revokeToken", returned |-> okSave, threw |-> ~okSave, outcome |-> r,
              inflight |-> task.inflight])]

\* The credentials record a run starts with.
InitAuth ==
  /\ now = StartTime
  /\ \E client, access, refresh \in BOOLEAN, verifier \in {0, StaleVerifier} :
       disk = [DEFAULT_SETTINGS EXCEPT !.clientId = client, !.oauth2AccessToken = access,
                                       !.oauth2RefreshToken = refresh,
                                       !.codeVerifier = verifier]
  /\ settings = disk
  /\ plugin = NewPlugin
  /\ service = NewService
  /\ inv = [p \in Procs |-> IdleInv]
  /\ saveFailures = 0
  /\ reloads = 0
  /\ loaded = TRUE
  /\ requests = <<>>
  /\ fn = NoAuth

ApplyAuth(r) ==
  /\ Commit(r.m)
  /\ fn' = r.f
  /\ UNCHANGED <<now, inv, reloads, loaded>>

\* The Connect button of the settings tab.
InitiateAuth ==
  /\ fn.sessions < MaxSessions
  /\ ApplyAuth(initiateTwitterAuth(Cur, fn))

GenerateAuthUrlDone ==
  \E task \in fn.tasks, ok \in BOOLEAN :
    /\ task.kind = "initiate"
    /\ ApplyAuth(afterGenerateAuthUrl(Cur, fn, task, ok))

\* One of the two protocol handlers fires, with any parameters.
AuthCallback ==
  \E state \in 0..ForgedState, code, okTs, okFin \in BOOLEAN :
    ApplyAuth(handleAuthCallback(Cur, fn, state, code, okTs, okFin))

ExchangeResponds ==
  \E task \in fn.tasks, r \in {"ok", "bad_json", "status", "network_error"},
     refresh, okSave, okFin \in BOOLEAN :
    /\ task.kind = "exchange"
    /\ r # "ok" => (refresh /\ okSave)
    /\ ApplyAuth(exchangeResponse(Cur, fn, task, r, refresh, okSave, okFin))

\* The Log out button of the settings tab.
Logout ==
  /\ \A task \in fn.tasks : task.kind # "revoke"
  /\ \E okTs \in BOOLEAN : ApplyAuth(revokeToken(Cur, fn, okTs))

RevokeResponds ==
  \E task \in fn.tasks, r \in {"2xx", "status", "network_error", "timeout"}, okSave \in BOOLEAN :
    /\ task.kind = "revoke"
    /\ ApplyAuth(revokeResponse(Cur, fn, task, r, okSave))

\* The Client ID field of the settings tab is edited: emptied or filled in.
EditClientId ==
  \E ok \in BOOLEAN :
    /\ Commit(saveSettings([Cur EXCEPT !.s.clientId = ~settings.clientId], ok))
    /\ fn' = Ran(fn, [ev |-> "edit"])
    /\ UNCHANGED <<now, inv, reloads, loaded>>

NextAuth ==
  \/ InitiateAuth
  \/ GenerateAuthUrlDone
  \/ AuthCallback
  \/ ExchangeResponds
  \/ Logout
  \/ RevokeResponds
  \/ EditClientId

SpecAuth == InitAuth /\ [][NextAuth]_vars

\* The handler that ran in this step, if any: a callback, a call of
\* initiateTwitterAuth, a return of revokeToken.
Handled(ev) == fn.op = "auth" /\ fn'.last.flip # fn.last.flip /\ fn'.last.ev = ev
\* The access and refresh tokens, in memory and in data.json.
StoredTokens(s, d) ==
  <<s.oauth2AccessToken, s.oauth2RefreshToken, d.oauth2AccessToken, d.oauth2RefreshToken>>
\* A session is pending: authState and currentCodeVerifier are both set.
SessionPending(pl) == pl.authState # 0 /\ pl.currentCodeVerifier # 0

\* C14 as stated: a callback whose state is missing or differs from the pending
\* authState aborts the authorization: no token-exchange request is issued, the
\* stored tokens are unchanged, and authState and currentCodeVerifier are cleared.
C14_AnyPendingAuthState ==
  [][(/\ Handled("callback") /\ plugin.authState # 0
      /\ (fn'.last.state = 0 \/ fn'.last.state # plugin.authState))
       => /\ fn'.exchanges = fn.exchanges
          /\ StoredTokens(settings', disk') = StoredTokens(settings, disk)
          /\ plugin'.authState = 0 /\ plugin'.currentCodeVerifier = 0]_vars

\* C14, amended: when a session is pending (authState and currentCodeVerifier both
\* set), a callback whose state is missing or differs from authState aborts the
\* authorization: no token-exchange request is issued, the stored tokens are
\* unchanged, and authState and currentCodeVerifier are cleared.
C14_StateMismatchAborts ==
  [][(/\ Handled("callback") /\ SessionPending(plugin)
      /\ (fn'.last.state = 0 \/ fn'.last.state # plugin.authState))
       => /\ fn'.exchanges = fn.exchanges
          /\ StoredTokens(settings', disk') = StoredTokens(settings, disk)
          /\ plugin'.authState = 0 /\ plugin'.currentCodeVerifier = 0]_vars

\* A callback with a state that differs from the pending one was rejected.
C14_Witness ==
  /\ fn.op = "auth" /\ fn.last.ev = "callback" /\ fn.last.result = "invalid_state"
  /\ fn.last.state # 0 /\ fn.sessions >= 1

\* The number of token-exchange requests that carried the verifier of session k.
ExchangesOf(f, k) == Cardinality({j \in DOMAIN f.exchanges : f.exchanges[j] = k})

\* C15: a session is consumed at most once: whatever callbacks are delivered, in any
\* number and order, a token-exchange request is issued at most once per session,
\* and a callback that arrives when no session is pending is ignored: no state
\* changes and no request is issued.
C15_SessionConsumedOnce ==
  [][/\ fn.op = "auth" => \A k \in 1..MaxSessions : ExchangesOf(fn', k) <= 1
     /\ (Handled("callback") /\ ~SessionPending(plugin))
          => /\ <<settings', disk', plugin', service'>> = <<settings, disk, plugin, service>>
             /\ fn'.exchanges = fn.exchanges /\ fn'.tasks = fn.tasks]_vars

\* A second callback with the right state arrived after the session was consumed
\* by a token exchange, and was ignored.
C15_Witness ==
  /\ fn.op = "auth" /\ fn.last.ev = "callback" /\ fn.last.result = "ignored"
  /\ fn.last.state # 0 /\ fn.last.code
  /\ ExchangesOf(fn, fn.last.state) = 1

\* C16: revokeToken always returns true (it never throws), and when it has returned
\* accessToken, refreshToken and codeVerifier are all empty, whatever the
\* credentials it started with and whatever the outcome of the revoke request.
C16_RevokeAlwaysClears ==
  [][Handled("revokeToken")
       => /\ fn'.last.returned /\ ~fn'.last.threw
          /\ ~settings'.oauth2AccessToken /\ ~settings'.oauth2RefreshToken
          /\ settings'.codeVerifier = 0]_vars

\* C18: with an empty clientId, initiateTwitterAuth makes no network request, opens
\* no authorization URL and leaves no pending session: authState and
\* currentCodeVerifier are as before and no call is left running (generateAuthUrl
\* itself throws the configuration error before its first await).
C18_NoClientIdNoSession ==
  [][(Handled("initiate") /\ ~settings.clientId)
       => /\ generateAuthUrlThrows(settings)
          /\ fn'.opened = fn.opened /\ fn'.tasks = fn.tasks
          /\ fn'.exchanges = fn.exchanges /\ fn'.revokes = fn.revokes
          /\ <<settings', disk', plugin', service'>> = <<settings, disk, plugin, service>>
          /\ ~SessionPending(plugin) => ~SessionPending(plugin')]_vars

\* initiateTwitterAuth was called with an empty clientId.
C18_Witness ==
  /\ fn.op = "auth" /\ fn.last.ev = "initiate" /\ fn.last.result = "no_client_id"
  /\ ~settings.clientId

\* ------------------------------------------- manual syncs with the bypass enabled
\* data.json of a connected plugin whose rate-limit bypass is on and whose automatic
\* sync is off: every sync is started by the user, one right after the other (the
\* clock does not move between them). What follows an answered bookmarks request is
\* left to Spec: here that request stays pending.
InitBypass ==
  /\ now = StartTime
  /\ disk = [DEFAULT_SETTINGS EXCEPT !.clientId = TRUE, !.oauth2AccessToken = TRUE,
                                     !.oauth2RefreshToken = TRUE, !.autoSync = FALSE,
                                     !.bypassRateLimit = TRUE]
  /\ settings = disk
  /\ plugin = NewPlugin
  /\ service = NewService
  /\ inv = [p \in Procs |-> IdleInv]
  /\ saveFailures = 0
  /\ reloads = 0
  /\ loaded = FALSE
  /\ requests = <<>>
  /\ fn = NoCall

NextBypass ==
  \/ Load
  \/ ManualSync
  \/ GuardSaveDone
  \/ MeResponds
  \/ RefreshResponds
  \/ FinallySaveDone

SpecBypass == InitBypass /\ [][NextBypass]_vars

\* C17: a token refresh answered 429 with wait time W makes refreshAccessToken
\* return failure after that one request (the call does not issue another), and its
\* caller issues no further token-refresh request before W has elapsed.
C17_NoRefreshBeforeWait ==
  [][\A p \in Procs :
       /\ (inv[p].pc = "refresh_wait" /\ inv'[p] # inv[p]) => inv'[p].pc = "finally_save"
       /\ (inv[p].pc # "refresh_wait" /\ inv'[p].pc = "refresh_wait")
            => now >= service.refreshNotBefore]_vars

\* The invocation p of syncBookmarks holds the guard: it has set syncInProgress and
\* has not finished its work (it is not yet at one of the saves that follow its own
\* clearing of the flag: main.ts:404-405, 430-431, 522-523).
HoldsGuard(p) ==
  inv[p].acquired /\ inv[p].pc \notin {"idle", "empty_save", "release_save", "finally_save"}

\* C19: syncInProgress stays true from the acquisition of the guard until the
\* attempt has finished its work, no second invocation acquires the guard in
\* between, and the flag is cleared only by the invocation that holds it.
C19_GuardHeldUntilDone ==
  [][/\ \A p \in Procs :
          HoldsGuard(p)' => /\ settings'.syncInProgress
                            /\ \A q \in Procs \ {p} : ~HoldsGuard(q)'
     /\ (settings.syncInProgress /\ ~settings'.syncInProgress /\ loaded')
          => \E p \in Procs : HoldsGuard(p) /\ inv'[p] # inv[p]]_vars

\* C20: when users/me or the bookmarks request fails with an authentication error
\* and a refresh token is stored, fetchBookmarks attempts refreshAccessToken once
\* before it fails.
C20_AuthErrorRefreshesOnce ==
  [][\A p \in Procs :
       (/\ inv[p].pc \in {"me_wait", "bm_wait"} /\ inv'[p].caught = "401"
        /\ settings.oauth2RefreshToken)
         => inv'[p].pc = "refresh_wait" \/ ~settings.clientId]_vars

\* ------------------------------------------- claims C21..C30
\* The positions of an invocation inside fetchBookmarks once users/me has answered.
AfterUserLookup == {"bm_wait", "cursor_save", "refresh_wait"}

\* C21: one call of fetchBookmarks issues at most one bookmarks-list request, and
\* exactly one when the user lookup succeeds: the request is issued when users/me
\* answers and at no other point of the call; after a successful token refresh the
\* call ends with the 'Authentication refreshed' error without a second request.
C21_OneBookmarksRequestPerCall ==
  [][\A p \in Procs :
       /\ (inv[p].pc = "me_wait" /\ inv'[p].pc = "bm_wait")
            => requests' = Append(requests, now)
       /\ (inv'[p] # inv[p] /\ ~(inv[p].pc = "me_wait" /\ inv'[p].pc = "bm_wait"))
            => requests' = requests
       /\ (inv[p].pc \in AfterUserLookup /\ inv'[p] # inv[p])
            => inv'[p].pc \notin {"me_wait", "bm_wait"}
       /\ (inv[p].pc = "refresh_wait" /\ inv'[p].outcome = "refreshed")
            => inv'[p].pc = "finally_save" /\ requests' = requests]_vars

\* A call that issued its bookmarks request refreshed the token and ended.
C21_Witness ==
  \E p \in Procs :
    /\ inv[p].pc = "finally_save" /\ inv[p].outcome = "refreshed"
    /\ Len(requests) >= 1 /\ requests[Len(requests)] >= inv[p].start

\* The step dispatches a request of fetchBookmarks for invocation p: users/me or
\* the bookmarks list.
Dispatches(p) == inv'[p].pc \in {"me_wait", "bm_wait"} /\ inv'[p].pc # inv[p].pc

\* C22: every request of fetchBookmarks (users/me and bookmarks) is preceded in the
\* same call by an update of the rate timestamp that is also persisted: when the
\* request is dispatched, lastApiCallTime, settings.lastSyncTime and the lastSyncTime
\* stored in data.json are the time of the dispatch.
C22_TimestampPersistedBeforeRequest ==
  [][\A p \in Procs :
       Dispatches(p) => /\ service'.lastApiCallTime = now
                        /\ settings'.lastSyncTime = now
                        /\ disk'.lastSyncTime = now]_vars

\* C23: when processBookmarks fails after a successful fetch, the cursor keeps the
\* values that fetch committed (the token is the next_token of its page) and
\* lastSyncTimestamp is not advanced; the failure is handled as a failed attempt:
\* the cooldown is set and syncInProgress is cleared.
C23_WriteFailureKeepsCursor ==
  [][\A p \in Procs :
       (inv[p].pc = "processing" /\ inv'[p].outcome = "processing_error")
         => /\ Cursor(settings') = Cursor(settings)
            /\ settings'.lastSyncPage = settings.lastSyncPage
            /\ settings'.nextPaginationToken = inv[p].nextToken
            /\ settings'.lastSyncTimestamp = settings.lastSyncTimestamp
            /\ plugin'.isSyncCooldown /\ plugin'.nextAllowedSyncTime > now
            /\ ~settings'.syncInProgress]_vars

\* The writing of a fetched page that had a next_token failed.
C23_Witness ==
  \E p \in Procs :
    /\ inv[p].pc = "finally_save" /\ inv[p].outcome = "processing_error"
    /\ settings.nextPaginationToken # NoToken /\ settings.lastSyncPage >= 1

\* C24: no fetched page is skipped: when the writing of a fetched page fails, the
\* next bookmarks request asks for that page again, that is, it carries the token
\* the failed page was requested with.
C24_FailedPageRequestedAgain ==
  [][\A p \in Procs :
       (inv[p].pc = "processing" /\ inv'[p].outcome = "processing_error")
         => paginationToken(settings') = inv[p].token]_vars

\* C25: the in-progress guard does not survive a restart: when the plugin has been
\* loaded again, settings.syncInProgress is false, whatever data.json held when the
\* plugin was interrupted.
C25_GuardClearedOnLoad ==
  [][(~loaded /\ loaded') => ~settings'.syncInProgress]_vars

\* The outcomes of syncBookmarks after fetchBookmarks threw.
FetchFailures == {"fetch_error", "rate_limit_wait", "rate_limit_error", "refreshed"}
\* The step in which fetchBookmarks, called by invocation p, throws.
FetchFails(p) ==
  /\ inv[p].pc \in {"guard_save", "me_wait", "bm_wait", "cursor_save", "refresh_wait"}
  /\ inv'[p].pc = "finally_save" /\ inv'[p].outcome \in FetchFailures

\* C26: a call of fetchBookmarks that fails leaves nextPaginationToken,
\* initialSyncComplete, lastSyncPage and lastSyncTimestamp as they were (a call that
\* has moved the cursor does not fail afterwards), and a call rejected before its
\* first request also leaves the rate timestamp and apiCallsInProgress as they were.
C26_FailedFetchChangesNothing ==
  [][\A p \in Procs :
       /\ FetchFails(p)
            => /\ inv[p].pc # "cursor_save"
               /\ Cursor(settings') = Cursor(settings)
               /\ settings'.lastSyncPage = settings.lastSyncPage
               /\ settings'.lastSyncTimestamp = settings.lastSyncTimestamp
       /\ (FetchFails(p) /\ inv[p].pc = "guard_save")
            => /\ service' = service
               /\ settings'.lastSyncTime = settings.lastSyncTime]_vars

\* The step in which invocation p receives a page: the response is processed and
\* the cursor stored.
ReceivesPage(p) == inv[p].pc = "bm_wait" /\ inv'[p].pc = "cursor_save"
\* The request of invocation p carries the token of the cursor s.
CarriesTokenOf(p, s) ==
  inv'[p].token = IF s.initialSyncComplete THEN NoToken ELSE s.nextPaginationToken

NoSwitch == [op |-> "switch", toggles |-> 0, unloaded |-> FALSE]

InitSwitch ==
  /\ now = StartTime
  /\ disk = [DEFAULT_SETTINGS EXCEPT !.clientId = TRUE, !.oauth2AccessToken = TRUE,
                                     !.oauth2RefreshToken = TRUE, !.autoSync = TRUE]
  /\ settings = disk
  /\ plugin = NewPlugin
  /\ service = NewService
  /\ inv = [p \in Procs |-> IdleInv]
  /\ saveFailures = 0
  /\ reloads = 0
  /\ loaded = FALSE
  /\ requests = <<>>
  /\ fn = NoSwitch

\* onChange of the Automatic Syncing toggle (flipped while no other save is under
\* way, so that its own save completes before anything else runs).
autoSyncToggled(M, value, okSave, ok) ==
  LET M1 == saveSettings([M EXCEPT !.s.autoSync = value], okSave) IN
  IF ~okSave THEN Returned(M1, "none")
  ELSE IF value THEN startAutoSync(M1, ok)
  ELSE Returned([M1 EXCEPT !.pl.syncTimer = 0, !.pl.syncTimerFor = "none"], "none")

ToggleAutoSync ==
  /\ loaded /\ ~Resuming /\ ~Writing /\ ~fn.unloaded /\ fn.toggles < MaxToggles
  /\ \E p \in Procs, okSave, ok \in BOOLEAN :
       /\ Free(p)
       /\ LET r == StartedBy(autoSyncToggled(Cur, ~settings.autoSync, okSave, ok), "check") IN
          /\ Commit(r.m)
          /\ inv' = [inv EXCEPT ![p] = r.i]
  /\ fn' = [fn EXCEPT !.toggles = @ + 1]
  /\ UNCHANGED <<now, reloads, loaded>>

\* onunload: the plugin is disabled.
Unload ==
  /\ loaded /\ ~Resuming /\ ~fn.unloaded
  /\ plugin' = [plugin EXCEPT !.syncTimer = 0, !.syncTimerFor = "none"]
  /\ fn' = [fn EXCEPT !.unloaded = TRUE]
  /\ UNCHANGED <<now, settings, disk, service, inv, saveFailures, reloads, loaded, requests>>

NextSwitch ==
  \/ Load
  \/ ToggleAutoSync
  \/ Unload
  \/ SyncTimerFires
  \/ CheckTimeoutFires
  \/ RetryTimeoutFires
  \/ CooldownExpires
  \/ RateCheckDone
  \/ GuardSaveDone
  \/ MeResponds
  \/ BookmarksRespond
  \/ RefreshResponds
  \/ CursorSaveDone
  \/ EmptySaveDone
  \/ ProcessBookmarksDone
  \/ ReleaseSaveDone
  \/ FinallySaveDone
  \/ Tick

SpecSwitch == InitSwitch /\ [][NextSwitch]_vars

\* The timers that will start an automatic sync or a scheduling check: syncTimer,
\* and the setTimeout calls whose handles the plugin does not keep.
PendingSyncTimers(pl) ==
  Cardinality({tm \in pl.timeouts : tm.kind \in {"check", "retry"}})
    + (IF pl.syncTimer # 0 THEN 1 ELSE 0)

\* C28: at most one scheduled automatic sync or scheduling check is pending at any
\* time.
C28_OneTimerPending == loaded => PendingSyncTimers(plugin) <= 1

\* Automatic syncing has been switched off and is still off, or the plugin has been
\* unloaded.
SwitchedOff == fn.unloaded \/ (fn.toggles >= 1 /\ ~settings.autoSync)
\* A timer fires in this step: a setTimeout callback that calls syncBookmarks(true)
\* or checkAndScheduleSync runs.
TimerFires ==
  /\ fn' = fn
  /\ \/ \E tm \in plugin.timeouts \ plugin'.timeouts : tm.kind \in {"check", "retry"}
     \/ SyncTimerDue /\ plugin'.syncTimer = 0

\* C29: once automatic syncing is switched off in the settings, or the plugin is
\* unloaded, no timer starts an automatic sync attempt or a scheduling check.
C29_NothingStartsAfterOff ==
  [][SwitchedOff => ~TimerFires]_vars

\* A syncBookmarks invocation gets past its checks and suspends at an await.
SyncStarts == \E p \in Procs : inv[p].pc = "idle" /\ inv'[p].pc # "idle"

\* The callback of a setCooldown expiry timer runs in this step.
ExpiryFires == \E tm \in plugin.timeouts \ plugin'.timeouts : tm.kind = "cooldownExpiry"

\* C30: while the bypass is off and the clock is before nextAllowedSyncTime, a call of
\* syncBookmarks returns at once: no invocation starts, the guard is not taken, no
\* request is sent, and the cursor, lastSyncTimestamp and the cooldown stay as they
\* are (the declined calls are among the steps that leave every invocation where it
\* was and are not the expiry timer of an earlier cooldown).
C30_CooldownDeclines ==
  [][(loaded /\ loaded' /\ ~settings.bypassRateLimit /\ now < plugin.nextAllowedSyncTime)
       => /\ ~SyncStarts
          /\ (inv' = inv /\ ~ExpiryFires)
               => /\ settings' = settings /\ disk' = disk
                  /\ service' = service /\ requests' = requests
                  /\ plugin'.nextAllowedSyncTime = plugin.nextAllowedSyncTime
                  /\ plugin'.isSyncCooldown = plugin.isSyncCooldown]_vars

\* The sync timer falls due inside a cooldown with nothing running: syncBookmarks(true)
\* is called and declines.
C30_Witness ==
  /\ loaded /\ ~Resuming /\ ~settings.bypassRateLimit /\ validateSettings(settings)
  /\ SyncTimerDue /\ now < plugin.nextAllowedSyncTime
  /\ \A p \in Procs : inv[p].pc = "idle"

\* ------------------------------------------------------------ claims C31..C40
\* checkAndScheduleSync is called in this step: by the callback of a
\* setTimeout(() => this.checkAndScheduleSync(), ...), or by startAutoSync in onload.
CheckRuns ==
  \/ \E tm \in plugin.timeouts \ plugin'.timeouts : tm.kind = "check"
  \/ ~loaded /\ loaded' /\ settings.autoSync

\* checkAndScheduleSync gets past its two early returns.
CheckNotDeclined ==
  /\ validateSettings(settings) /\ ~settings.syncInProgress
  /\ ~(now < plugin.nextAllowedSyncTime)

\* A sync attempt is recorded and is less than one window old.
InsideWindow ==
  settings.lastSyncTime # 0 /\ now - settings.lastSyncTime < RATE_LIMIT_WINDOW

\* C31: checkAndScheduleSync that is not declined, with the initial sync incomplete
\* and the bypass off, arms syncTimer for the rest of the window and starts nothing
\* when a sync attempt less than one window old is recorded, and starts a sync at once
\* otherwise.
C31_WaitOrSyncNow ==
  [][(CheckRuns /\ CheckNotDeclined /\ ~settings.initialSyncComplete
        /\ ~settings.bypassRateLimit)
       => IF InsideWindow
          THEN /\ ~SyncStarts /\ requests' = requests
               /\ plugin'.syncTimer = settings.lastSyncTime + RATE_LIMIT_WINDOW
          ELSE SyncStarts]_vars

\* Invocation p is a syncBookmarks(false) and runs in this step (it starts, resumes
\* or returns).
ManualStep(p) ==
  /\ loaded /\ loaded' /\ inv'[p] # inv[p]
  /\ \/ inv[p].pc # "idle" /\ ~inv[p].auto
     \/ inv[p].pc = "idle" /\ ~inv'[p].auto

\* The pending callbacks that start a sync or a scheduling check, apart from syncTimer.
SchedulingTimeouts(pl) == {tm \in pl.timeouts : tm.kind \in {"check", "retry"}}

\* C32: a manual sync schedules nothing: none of its steps, whatever its outcome,
\* arms or clears syncTimer or adds a callback that runs checkAndScheduleSync or
\* syncBookmarks.
C32_ManualSchedulesNothing ==
  [][\A p \in Procs :
       ManualStep(p)
         => /\ plugin'.syncTimer = plugin.syncTimer
            /\ plugin'.syncTimerFor = plugin.syncTimerFor
            /\ SchedulingTimeouts(plugin') = SchedulingTimeouts(plugin)]_vars

\* A manual sync has failed and runs its finally block while the timer armed before
\* it is still pending.
C32_Witness ==
  \E p \in Procs :
    /\ inv[p].pc = "finally_save" /\ ~inv[p].auto /\ inv[p].outcome \in FailedOutcomes
    /\ plugin.syncTimer # 0

\* ------------------------------------------- the two rate checks as functions
\* lastApiCallTime and settings.lastSyncTime when the checks are called: never set,
\* or set around one window before the first call.
AskTimes ==
  {0, StartTime - apiRateLimitWindow - 1, StartTime - apiRateLimitWindow,
   StartTime - apiRateLimitWindow + 1, StartTime - 1}

InitAsk ==
  /\ now = StartTime
  /\ \E a, b \in AskTimes, bypass \in BOOLEAN :
       /\ disk = [DEFAULT_SETTINGS EXCEPT !.lastSyncTime = b, !.bypassRateLimit = bypass]
       /\ service = [NewService EXCEPT !.lastApiCallTime = a]
  /\ settings = disk
  /\ plugin = NewPlugin
  /\ inv = [p \in Procs |-> IdleInv]
  /\ saveFailures = 0
  /\ reloads = 0
  /\ loaded = FALSE
  /\ requests = <<>>
  /\ fn = [op |-> "ask", pc |-> "call", isRateLimited |-> FALSE, threw |-> FALSE]

\* isRateLimited() and checkRateLimitStatus() are called on the state as it is.
AskBoth ==
  /\ fn.pc = "call"
  /\ fn' = [fn EXCEPT !.pc = "asked",
                      !.isRateLimited = isRateLimited(settings, service),
                      !.threw = checkRateLimitStatus(settings, service)]
  /\ PluginUnchanged

\* Date.now() moves on by a millisecond.
AskClock ==
  /\ now < StartTime + MaxAskTicks
  /\ now' = now + 1
  /\ fn' = [fn EXCEPT !.pc = "call"]
  /\ UNCHANGED <<settings, disk, plugin, service, inv, saveFailures, reloads, loaded,
                 requests>>

\* An API call records its time: updateRateLimitTimestamp.
AskRecord ==
  /\ \E ok \in BOOLEAN : Commit(updateRateLimitTimestamp(Cur, ok))
  /\ fn' = [fn EXCEPT !.pc = "call"]
  /\ UNCHANGED <<now, inv, reloads, loaded>>

NextAsk ==
  \/ AskBoth
  \/ AskClock
  \/ AskRecord

SpecAsk == InitAsk /\ [][NextAsk]_vars

\* What the claim says the checks answer: limited exactly when the bypass is off, a
\* call is recorded and the later of the two timestamps is less than 15 min old.
ExpectedLimited ==
  LET last == Max(service.lastApiCallTime, settings.lastSyncTime) IN
  /\ ~settings.bypassRateLimit
  /\ last # 0
  /\ now - last < 15 * 60 * 1000

\* C33: isRateLimited() is false under the bypass and when no call was ever recorded,
\* and otherwise true exactly when the later of lastApiCallTime and
\* settings.lastSyncTime is less than 15 min old; checkRateLimitStatus() throws
\* exactly when isRateLimited() returns true.
C33_RateChecksAgree ==
  (fn.op = "ask" /\ fn.pc = "asked")
    => /\ fn.isRateLimited = ExpectedLimited
       /\ fn.threw = fn.isRateLimited

\* The checks block because of the later timestamp alone: the earlier one is a full
\* window old.
C33_Witness ==
  /\ fn.op = "ask" /\ fn.pc = "asked" /\ fn.isRateLimited /\ fn.threw
  /\ service.lastApiCallTime # 0
  /\ now - service.lastApiCallTime >= apiRateLimitWindow
  /\ now - settings.lastSyncTime < apiRateLimitWindow

\* C34: in every reachable state, in memory and in data.json, nextPaginationToken is
\* non-empty only if initialSyncComplete is false.
C34_TokenOnlyWhileIncomplete ==
  /\ settings.nextPaginationToken # NoToken => ~settings.initialSyncComplete
  /\ disk.nextPaginationToken # NoToken => ~disk.initialSyncComplete

\* A request that carried a stored token was answered with the last page: the sync
\* is complete and the token is gone.
C34_Witness ==
  \E p \in Procs :
    /\ inv[p].pc = "cursor_save" /\ inv[p].token # NoToken
    /\ settings.initialSyncComplete /\ settings.nextPaginationToken = NoToken

\* A token exchange started by handleAuthCallback awaits its response.
ExchangeInFlight(f) == \E task \in f.tasks : task.kind = "exchange"

\* A handleAuthCallback that went as far as the token exchange returns in this step:
\* exchangeAuthCodeForToken threw before its request, or its response was handled.
CallbackReturns ==
  \/ Handled("callback") /\ fn'.last.result = "exchange_threw"
  \/ Handled("exchanged")

\* C35: settings.codeVerifier is non-empty only while a token exchange started by
\* handleAuthCallback is in flight, no exchange request carries an empty verifier,
\* and when handleAuthCallback has returned settings.codeVerifier is empty and
\* currentCodeVerifier is null.
C35_VerifierOnlyDuringExchange ==
  /\ [](fn.op = "auth"
         => /\ settings.codeVerifier # 0 => ExchangeInFlight(fn)
            /\ \A n \in 1..Len(fn.exchanges) : fn.exchanges[n] # 0)
  /\ [][CallbackReturns
          => settings'.codeVerifier = 0 /\ plugin'.currentCodeVerifier = 0]_vars

\* C36: when the token exchange of one authorization attempt completes and the
\* finally block of handleAuthCallback runs, the pending session of a newer attempt
\* (authState, currentCodeVerifier) started meanwhile is left as it is.
C36_AttemptsIsolated ==
  [][(Handled("exchanged") /\ plugin.authState # 0)
       => /\ plugin'.authState = plugin.authState
          /\ plugin'.currentCodeVerifier = plugin.currentCodeVerifier]_vars

\* The ids whose note content is in the vault: in a file of their own or in the
\* single file.
WrittenIds(V) == V.notes \cup {V.single[n] : n \in 1..Len(V.single)}

\* C37: an id is in the processed-ID ledger only if its note content has been
\* written to the vault, in both storage modes, also after a failed file write.
C37_LedgerOnlyAfterWrite ==
  fn.op = "writer"
    => \A id \in TweetIds :
         isBookmarkProcessed(fn.vault.processedBookmarks, id) => id \in WrittenIds(fn.vault)

\* ------------------------------------------ incremental syncs, one after another
\* The provider's bookmark list, newest bookmark first, served in pages of PageSize
\* (max_results, scaled down); the token of page k + 1 comes with page k.
PageOfToken(token) == IF token = NoToken THEN 1 ELSE IF token = "t1" THEN 2 ELSE 3
TokenAfterPage(k, list) ==
  IF Len(list) <= k * PageSize THEN NoToken ELSE IF k = 1 THEN "t1" ELSE "t2"
PageData(k, list) == SubSeq(list, (k - 1) * PageSize + 1, Min(k * PageSize, Len(list)))

\* created_at of a post the user bookmarks: an old post, or one just published.
PostTimes == {StartTime - TickStep, now}

\* The initial sync is complete; its last page was empty (no lastSyncTimestamp yet)
\* or was written at StartTime. list holds the bookmarks added since, added and
\* imported their ids and the ids that were written to the vault.
InitIncr ==
  /\ now = StartTime
  /\ \E ts \in {0, StartTime} :
       disk = [DEFAULT_SETTINGS EXCEPT !.clientId = TRUE, !.oauth2AccessToken = TRUE,
                                       !.oauth2RefreshToken = TRUE,
                                       !.initialSyncComplete = TRUE,
                                       !.lastSyncTimestamp = ts]
  /\ settings = disk
  /\ plugin = NewPlugin
  /\ service = NewService
  /\ inv = [p \in Procs |-> IdleInv]
  /\ saveFailures = 0
  /\ reloads = 0
  /\ loaded = TRUE
  /\ requests = <<>>
  /\ fn = [op |-> "incr", list |-> <<>>, added |-> {}, imported |-> {}, flip |-> FALSE]

\* The user bookmarks a post on the provider's site.
AddBookmark ==
  /\ \E id \in TweetIds \ fn.added, c \in PostTimes :
       fn' = [fn EXCEPT !.list = <<Tweet(id, c)>> \o @, !.added = @ \cup {id}]
  /\ PluginUnchanged

\* One syncBookmarks that succeeds at every step: the request with the stored token,
\* processBookmarksPage, the cursor update and, when the page kept anything, the
\* writing of the notes and the move of lastSyncTimestamp (lastSyncPage, which only
\* counts, is left out).
IncrementalSync ==
  LET k == PageOfToken(paginationToken(settings))
      data == PageData(k, fn.list)
      bookmarks == processBookmarksPage(data,
                     IF settings.initialSyncComplete THEN settings.lastSyncTimestamp ELSE 0)
      s1 == updateCursor(settings, TokenAfterPage(k, fn.list))
      s2 == IF Len(bookmarks) = 0 THEN s1 ELSE advanceLastSyncTimestamp(s1)
  IN /\ settings' = s2
     /\ disk' = s2
     /\ fn' = [fn EXCEPT !.imported = @ \cup {bookmarks[n].id : n \in 1..Len(bookmarks)},
                         !.flip = ~@]
     /\ UNCHANGED <<now, plugin, service, inv, saveFailures, reloads, loaded, requests>>

\* Time passes between two syncs.
IncrClock ==
  /\ now + TickStep <= MaxTime
  /\ now' = now + TickStep
  /\ UNCHANGED <<settings, disk, plugin, service, inv, saveFailures, reloads, loaded,
                 requests, fn>>

NextIncr ==
  \/ AddBookmark
  \/ IncrementalSync
  \/ IncrClock

\* The syncs keep coming: the timers of automatic syncing re-arm after every attempt.
SpecIncr == InitIncr /\ [][NextIncr]_vars /\ WF_vars(IncrementalSync)

\* C38: once the initial sync is complete, every bookmark the user adds is imported
\* by the successful incremental syncs that follow, whenever the bookmarked post was
\* created and however many pages the list has.
C38_AddedBookmarkImported ==
  \A id \in TweetIds : [](id \in fn.added => <>(id \in fn.imported))

\* ------------------------------------------ authorization, then a manual sync
\* A plugin with its client id entered and not connected yet; nothing is scheduled.
InitConnect ==
  /\ now = StartTime
  /\ disk = [DEFAULT_SETTINGS EXCEPT !.clientId = TRUE, !.autoSync = FALSE]
  /\ settings = disk
  /\ plugin = NewPlugin
  /\ service = NewService
  /\ inv = [p \in Procs |-> IdleInv]
  /\ saveFailures = 0
  /\ reloads = 0
  /\ loaded = TRUE
  /\ requests = <<>>
  /\ fn = NoAuth

\* The Connect button, pressed once.
ConnectOnce ==
  /\ fn.sessions = 0
  /\ ApplyAuth(initiateTwitterAuth(Cur, fn))

\* The provider redirects back with the state it was given and a code.
ProviderCallback ==
  /\ plugin.authState # 0
  /\ \E okTs, okFin \in BOOLEAN :
       ApplyAuth(handleAuthCallback(Cur, fn, plugin.authState, TRUE, okTs, okFin))

\* The instants around the token request and the end of the window it opens: just
\* before the request times out, and the last millisecond of the window and its end.
ConnectInstants ==
  {StartTime + RequestTimeout - 1, StartTime + apiRateLimitWindow - 1,
   StartTime + apiRateLimitWindow}

\* Time passes, up to the next of these instants, the next timer or the next tick.
ConnectClock ==
  /\ loaded /\ ~Resuming /\ ~Writing
  /\ DueTimeouts = {} /\ ~SyncTimerDue
  /\ LET next == {c \in ConnectInstants \cup {now + TickStep, NextDue, MaxTime} :
                    c > now /\ c <= MaxTime}
     IN /\ next # {}
        /\ now' = CHOOSE c \in next : \A e \in next : c <= e
  /\ UNCHANGED <<settings, disk, plugin, service, inv, saveFailures, reloads, loaded,
                 requests, fn>>

NextConnect ==
  \/ ConnectOnce
  \/ GenerateAuthUrlDone
  \/ ProviderCallback
  \/ ExchangeResponds
  \/ Logout
  \/ RevokeResponds
  \/ ManualSync
  \/ RateCheckDone
  \/ GuardSaveDone
  \/ MeResponds
  \/ BookmarksRespond
  \/ CursorSaveDone
  \/ ProcessBookmarksDone
  \/ ReleaseSaveDone
  \/ FinallySaveDone
  \/ ConnectClock

SpecConnect == InitConnect /\ [][NextConnect]_vars

\* A request to an OAuth endpoint goes out through nodeHttpRequest in this step: a
\* token exchange, a revoke or a token refresh.
OAuthRequestSent ==
  \/ fn.op = "auth" /\ Len(fn'.exchanges) > Len(fn.exchanges)
  \/ fn.op = "auth" /\ fn'.revokes > fn.revokes
  \/ \E p \in Procs : inv'[p].pc = "refresh_wait" /\ inv[p].pc # "refresh_wait"

\* Every OAuth request records the rate timestamp.
OAuthRequestRecorded ==
  [][OAuthRequestSent
       => service'.lastApiCallTime = now /\ settings'.lastSyncTime = now]_vars

\* The authorization was completed by the handler that ran last.
JustAuthorized ==
  fn.op = "auth" /\ fn.last.ev = "exchanged" /\ fn.last.result = "success"

\* Every syncBookmarks that starts in this step stops at the rate gate, which sends
\* nothing.
DeclinedAtGate ==
  \A p \in Procs :
    (inv[p].pc = "idle" /\ inv'[p].pc # "idle")
      => inv'[p].pc = "rate_check" /\ inv'[p].threw /\ requests' = requests

\* C39 as stated: every OAuth request records the rate timestamp, and with the
\* bypass off a sync attempted less than one window after the authorization was
\* completed is declined by the rate gate without a request.
C39_GateAfterCompletion ==
  /\ OAuthRequestRecorded
  /\ [][(JustAuthorized /\ ~settings.bypassRateLimit
           /\ now - fn.last.at < apiRateLimitWindow)
          => DeclinedAtGate]_vars

\* C39, amended: every OAuth request records the rate timestamp, and with the bypass
\* off a sync attempted less than one window after the token request of the
\* authorization was sent is declined by the rate gate without a request.
C39_GateAfterRequest ==
  /\ OAuthRequestRecorded
  /\ [][(JustAuthorized /\ ~settings.bypassRateLimit
           /\ now - fn.last.sent < apiRateLimitWindow)
          => DeclinedAtGate]_vars

\* A sync attempted in the last millisecond of the window opened by the token
\* request stands at the rate gate, which has thrown.
C39_Witness ==
  /\ JustAuthorized /\ ~settings.bypassRateLimit
  /\ now - fn.last.sent = apiRateLimitWindow - 1
  /\ \E p \in Procs : inv[p].pc = "rate_check" /\ inv[p].threw

\* revokeToken ran its finally block and was the last handler to run.
RevokeReturned ==
  fn.op = "auth" /\ fn.last.ev = "revokeToken" /\ "inflight" \in DOMAIN fn.last

\* The response of a token exchange that was in flight when revoke ran arrives in
\* this step.
StaleExchangeResponds ==
  /\ RevokeReturned
  /\ Handled("exchanged")
  /\ \E task \in fn.tasks \ fn'.tasks : task.kind = "exchange" /\ task.k \in fn.last.inflight

\* C40: once revokeToken has returned, the response of a token exchange that was
\* already in flight when revoke ran leaves accessToken and refreshToken empty.
C40_RevokedStaysEmpty ==
  [][StaleExchangeResponds
       => ~settings'.oauth2AccessToken /\ ~settings'.oauth2RefreshToken]_vars
====
